---- MODULE Spec2Model ----
(***************************************************************************)
(* Model of @vue-kakuyaku/core: BareTask / useTask (abortable, redoable    *)
(* asynchronous task with reactive state) and useErrorRetry on top of it;  *)
(* useDeferredScope / useParamScope (child effect scopes bound to a key);  *)
(* usePromise with the PromiseStateAtomic variant of useErrorRetry;        *)
(* useStaleIfErrorState; an AbortHandle on its own; useSwr of core-old;    *)
(* the useTask of core-new.                                                *)
(*                                                                         *)
(* JavaScript is single threaded: every handler below is one atomic        *)
(* action.  Promise reactions are entries of a FIFO microtask queue; user  *)
(* code (run(), abort(), the wrapped function's promise settling) may be   *)
(* interleaved between any two microtasks, timers fire only when the       *)
(* microtask queue is empty.                                               *)
(***************************************************************************)
EXTENDS Integers, Sequences, FiniteSets, TLC

\* ---- bounds -------------------------------------------------------------
MaxRuns == 2        \* runs dispatched per behaviour of a task without retry
MaxHooks == 1       \* abort hooks the wrapped function registers per run
MaxRetryRuns == 3   \* runs dispatched per behaviour of a task with useErrorRetry
MaxCount == 2       \* largest `count` option given to useErrorRetry
MaxUserRuns == 1    \* runs the user dispatches on a task with useErrorRetry
MaxSetups == 3      \* child scopes created per behaviour of a DeferredScope / ParamScope
MaxKeySets == 2     \* assignments to the key source of a ParamScope per behaviour
MaxScopeHooks == 1  \* teardown hooks a setup function registers in its scope
MaxPromises == 3    \* promises given to set() of a usePromise per behaviour

MaxSwrOps == 2      \* operations of the user on a useSwr per behaviour
MaxUserStoreOps == 1 \* the same, when the user gives state objects of its own to store.set
MaxPluginOps == 1   \* the same, when the list of plugins is an input
MaxPlugins == 3     \* plugins in the `use` list of a useSwr
MaxHandleHooks == 3 \* hooks registered on an AbortHandle used directly
MaxAborts == 2      \* calls of abort() on an AbortHandle used directly

VARIABLES
    mode,       \* "bare": a BareTask used directly; "task": a Task of useTask;
                \* "new": a Task of the useTask of core-new;
                \* "handle": an AbortHandle used directly (runs[1] holds it)
    fnHooks,    \* abort hooks the wrapped function registers each time it is invoked
    scope,      \* effect scope useTask was called in: "none" | "active" | "stopped"
    runs,       \* sequence of the runs dispatched so far (run id = index)
    active,     \* BareTask.#active: 0 (null) or a run id
    lastRun,    \* useTask's lastRun: 0 (null) or a run id
    state,      \* task.state
    queue,      \* microtask queue (FIFO)
    retry,      \* useErrorRetry: lastResult, retriesCount, interval timer, watcher
    stale,      \* useStaleIfErrorState: its shallowReactive state
    sameData,   \* the wrapped function settles with the same reference every time
    \* useDeferredScope / useParamScope
    smode,      \* "off" | "deferred": a DeferredScope used directly | "param": a ParamScope
    main,       \* useDeferredScope's main scope: "detached" | "active" | "stopped"
    scopes,     \* sequence of the child scopes created so far (scope id = index)
    child,      \* useDeferredScope's `scope`: 0 (null) or a scope id
    scopeSetupReturn,   \* scopeSetupReturn.value
    keyRef,     \* current value of the key source of useParamScope
    pwatch,     \* the watcher of useParamScope
    keySets,    \* assignments to the key source so far
    constKey,   \* bookkeeping: the key source only ever held composed keys with one key
    lastCall,   \* bookkeeping: the operation that made the last step
    \* usePromise / useErrorRetry (PromiseStateAtomic variant)
    pmode,      \* "off" | "promise": usePromise alone | "retry": with useErrorRetry
    promises,   \* sequence of the promises given to set() so far (promise id = index)
    pactive,    \* usePromise's `active`: 0 (null) or a promise id
    pstate,     \* usePromise's `state`
    pseen,      \* bookkeeping: the states shown to a synchronous reader in the last handler
    pqueue,     \* microtask queue (FIFO)
    pretry,     \* useErrorRetry: lastResult, retriesCount, interval timer, watchers
    \* useSwr
    swrMode,    \* "off" | "swr"
    swr,        \* scope of the composable, fetch key, watcher of the outer useSourceScope,
                \* keys that have an entry in the store's Map
    keyScope,   \* scope set up for the current key: computed state and its two watchers
    resScope,   \* scope set up for the current state object: currentFetchTask, trigger watcher
    resource,   \* resource.value: the set-up that published it, 0 for null
    store,      \* the amnesia store: key -> state object (0: no entry)
    states,     \* the state objects created by reset() so far (state id = index)
    fetches,    \* the fetches started by executeFetch so far (fetch id = index)
    sq,         \* microtask queue (FIFO)
    sjobs,      \* Vue's queue of watcher jobs
    setups,     \* bookkeeping: the resource set-ups so far (set-up id = index)
    swrOps,     \* bookkeeping: operations of the user so far
    swrTick     \* bookkeeping: flips whenever a microtask has run

taskVars == <<mode, fnHooks, scope, runs, active, lastRun, state, queue, retry, stale,
              sameData>>

scopeVars == <<smode, main, scopes, child, scopeSetupReturn, keyRef, pwatch, keySets, constKey, lastCall>>

promiseVars == <<pmode, promises, pactive, pstate, pseen, pqueue, pretry>>

swrVars == <<swrMode, swr, keyScope, resScope, resource, store, states, fetches,
             sq, sjobs, setups, swrOps, swrTick>>

vars == <<taskVars, scopeVars, promiseVars, swrVars>>

\* ---- constants of the library --------------------------------------------
STATE_UNINIT_RAW == [kind |-> "uninit", val |-> 0]

STATE_PENDING_RAW == [kind |-> "pending", val |-> 0]

STATE_ABORTED == [kind |-> "aborted", val |-> 0]

STATE_ABORTED_RAW == [kind |-> "aborted", val |-> 0]

\* an unsettled promise
PromisePending == [kind |-> "pending", val |-> 0]

\* a run before the wrapped function has been invoked
NoRun ==
    [ fn |-> "none", fnVal |-> 0,          \* the wrapped function's own outcome
      hooks |-> <<>>,                      \* AbortHandle.hooks
      exc |-> FALSE,                       \* an exception left AbortHandle.abort()
      promise |-> PromisePending,          \* promise returned by BareTask.run()
      ret |-> PromisePending,              \* promise returned by Task.run()
      \* bookkeeping for the properties (not read by any operation)
      fromKind |-> "none",                 \* task.state.kind when run() was called
      sawKind |-> "none",                  \* task.state.kind when fn was invoked
      inflight |-> 0,                      \* unsettled run promises when fn was invoked
      abortBy |-> "none",                  \* what aborted the handle: run | abort | scope
      abortFn |-> "none",                  \* fn outcome at that moment
      abortPromise |-> "none",             \* run promise kind at that moment
      abortState |-> "none",               \* task.state.kind at that moment
      wrote |-> "none",                    \* kind this run wrote to task.state
      runNotes |-> 0,                      \* assignments to task.state made by run()
      thenNotes |-> 0,                     \* assignments made by its .then callback
      aborts |-> 0,                        \* calls of abort() on the AbortHandle
      log |-> <<>>,                        \* hooks invoked by the last abort(), in order
      logged |-> 0,                        \* console.error calls of abort()
      superseded |-> FALSE ]               \* a newer run was dispatched before ret settled

\* useErrorRetry not attached
RetryOff ==
    [ on |-> FALSE, count |-> 0,
      lastResult |-> "null",    \* kind of useLastTaskResult(task).value
      retries |-> 0,            \* retriesCount.value
      timer |-> FALSE,          \* the interval of useIntervalFn is running
      watchOld |-> FALSE,       \* value of the watch source at its last evaluation
      tracks |-> FALSE,         \* that evaluation read retriesCount
      jobQueued |-> FALSE,      \* the watcher's job is queued for the next flush
      ticks |-> 0,              \* bookkeeping: retries invoked from the timer
      userReset |-> FALSE ]     \* bookkeeping: reset() of the user changed the counter

\* useStaleIfErrorState not attached; attached to a task that has not run it
\* starts with the same values (null is 0)
StaleOff ==
    [ on |-> FALSE, result |-> 0, error |-> 0, pending |-> FALSE, fresh |-> FALSE,
      watching |-> FALSE,       \* its watcher on task.state is active
      lastOk |-> 0 ]            \* bookkeeping: data of the last ok task state

\* the whole program state as one value, threaded through the handlers
W ==
    [ mode |-> mode, runs |-> runs, active |-> active,
      lastRun |-> lastRun, state |-> state, queue |-> queue, retry |-> retry,
      stale |-> stale,
      assigns |-> 0 ]           \* bookkeeping: assignments to task.state in this handler

Commit(w) ==
    /\ runs' = w.runs
    /\ active' = w.active
    /\ lastRun' = w.lastRun
    /\ state' = w.state
    /\ queue' = w.queue
    /\ retry' = w.retry
    /\ stale' = w.stale
    /\ mode' = mode
    /\ fnHooks' = fnHooks
    /\ sameData' = sameData
    /\ UNCHANGED <<scopeVars, promiseVars, swrVars>>

\* ---- statesEqual / setTaskStateWithEqualityCheck --------------------------
statesEqual(one, other) ==
    /\ one.kind = other.kind
    /\ (one.kind # "ok" \/ one.val = other.val)
    /\ (one.kind # "err" \/ one.val = other.val)

\* Vue's queueJob for the watcher of useErrorRetry (flush: 'pre'): the job is
\* queued once, and queueFlush schedules flushJobs as a microtask
QueueJob(w) ==
    IF w.retry.jobQueued THEN w
    ELSE [w EXCEPT !.retry.jobQueued = TRUE,
                   !.queue = IF \E i \in 1..Len(w.queue) : w.queue[i].t = "flush"
                             THEN @ ELSE Append(@, [t |-> "flush", r |-> 0])]

\* useLastTaskResult: synchronous watcher on task.state keeping the last ok/err;
\* its ref is a dependency of the watcher of useErrorRetry
useLastTaskResult(w, s) ==
    IF w.retry.on /\ s.kind \in {"ok", "err"}
    THEN QueueJob([w EXCEPT !.retry.lastResult = s.kind])
    ELSE w

\* variant of the watch callback of useStaleIfErrorState: an error drops the
\* stale result
StaleCallback_DropResult(st, val) ==
    IF val.kind = "pending"
    THEN [st EXCEPT !.pending = TRUE, !.fresh = FALSE]
    ELSE IF val.kind = "err"
         THEN [st EXCEPT !.pending = FALSE, !.error = val.val, !.result = 0]
         ELSE IF val.kind = "ok"
              THEN [st EXCEPT !.pending = FALSE, !.result = val.val, !.error = 0,
                              !.fresh = TRUE]
              ELSE [st EXCEPT !.pending = FALSE]

\* variant of the watch callback: a pending task leaves `fresh` as it is
StaleCallback_KeepFresh(st, val) ==
    IF val.kind = "pending"
    THEN [st EXCEPT !.pending = TRUE]
    ELSE IF val.kind = "err"
         THEN [st EXCEPT !.pending = FALSE, !.error = val.val]
         ELSE IF val.kind = "ok"
              THEN [st EXCEPT !.pending = FALSE, !.result = val.val, !.error = 0,
                              !.fresh = TRUE]
              ELSE [st EXCEPT !.pending = FALSE]

\* the watch callback of useStaleIfErrorState
StaleCallback(st, val) ==
    IF val.kind = "pending"
    THEN [st EXCEPT !.pending = TRUE, !.fresh = FALSE]
    ELSE IF val.kind = "err"
         THEN [st EXCEPT !.pending = FALSE, !.error = val.val]
         ELSE IF val.kind = "ok"
              THEN [st EXCEPT !.pending = FALSE, !.result = val.val, !.error = 0,
                              !.fresh = TRUE]
              ELSE [st EXCEPT !.pending = FALSE]

\* useStaleIfErrorState: watcher on task.state with flush: 'sync', its callback
\* runs inside the assignment; a watcher stopped with its scope does nothing
useStaleIfErrorState(w, s) ==
    IF w.stale.on /\ w.stale.watching
    THEN [w EXCEPT !.stale = [StaleCallback(@, s) EXCEPT
                                 !.lastOk = IF s.kind = "ok" THEN s.val ELSE @]]
    ELSE w

\* `task.state = newState` followed by the synchronous watchers on task.state
AssignState(w, s) ==
    useStaleIfErrorState(useLastTaskResult([w EXCEPT !.state = s, !.assigns = @ + 1], s), s)

\* variant: the state is assigned without the equality check
setTaskStateWithEqualityCheck_NoCheck(w, newState) == AssignState(w, newState)

setTaskStateWithEqualityCheck(w, newState) ==
    IF ~statesEqual(w.state, newState) THEN AssignState(w, newState) ELSE w

\* ---- promises -------------------------------------------------------------
\* variant of resolve: a later call overwrites an already settled promise
resolve_Overwrite(w, r, v) ==
    [w EXCEPT !.runs[r].promise = v,
              !.queue = IF w.mode = "task"
                        THEN Append(@, [t |-> "taskThen", r |-> r]) ELSE @]

\* resolve(v) of the promise created in BareTask.run(): only the first call
\* settles it; useTask's .then reaction is then queued as a microtask
resolve(w, r, v) ==
    IF w.runs[r].promise.kind = "pending"
    THEN [w EXCEPT !.runs[r].promise = v,
                   !.queue = IF w.mode = "task"
                             THEN Append(@, [t |-> "taskThen", r |-> r])
                             ELSE IF w.mode = "new"
                                  THEN Append(@, [t |-> "newThen", r |-> r]) ELSE @]
    ELSE w

\* ---- AbortHandle ----------------------------------------------------------
\* the functions given to onAbort when an AbortHandle is used directly, and
\* which of them throw when called
HookFns == {1, 2}

HookThrows == <<TRUE, FALSE>>

\* this.hooks.push(fn)
onAbort(w, r, k, fn, throws) ==
    [w EXCEPT !.runs[r].hooks = Append(@, [k |-> k, fn |-> fn, throws |-> throws,
                                           calls |-> 0,
                                           at |-> w.runs[r].aborts])]  \* bookkeeping

\* fn() of one hook
CallHook(w, r, i) ==
    LET h == w.runs[r].hooks[i]
        w1 == [w EXCEPT !.runs[r].hooks[i].calls = @ + 1,
                        !.runs[r].log = Append(@, i)]
    IN  IF h.k = "resolve" THEN resolve(w1, r, STATE_ABORTED) ELSE w1

\* variant of the loop body: no try/catch around the hook
AbortStep_NoCatch(w, r, i) ==
    IF w.runs[r].hooks[i].throws
    THEN [CallHook(w, r, i) EXCEPT !.runs[r].exc = TRUE]
    ELSE CallHook(w, r, i)

\* one iteration of the loop of AbortHandle.abort():
\* try { fn() } catch (err) { console.error(...) }
AbortStep(w, r, i) ==
    IF w.runs[r].hooks[i].throws
    THEN [CallHook(w, r, i) EXCEPT !.runs[r].logged = @ + 1]
    ELSE CallHook(w, r, i)

\* for (const fn of this.hooks): an exception that leaves the body ends the loop
RECURSIVE AbortLoop(_, _, _)
AbortLoop(w, r, i) ==
    IF i > Len(w.runs[r].hooks) \/ w.runs[r].exc
    THEN w
    ELSE AbortLoop(AbortStep(w, r, i), r, i + 1)

AbortHandleAbort(w, r) ==
    AbortLoop([w EXCEPT !.runs[r].aborts = @ + 1, !.runs[r].log = <<>>], r, 1)

\* ---- BareTask -------------------------------------------------------------
\* variant of BareTask.abort(): the active-run slot is not cleared
BareAbort_KeepActive(w, by) ==
    IF w.active # 0
    THEN LET r == w.active
             w1 == [w EXCEPT !.runs[r].abortBy = by,
                             !.runs[r].abortFn = w.runs[r].fn,
                             !.runs[r].abortPromise = w.runs[r].promise.kind,
                             !.runs[r].abortState = w.state.kind]
         IN  AbortHandleAbort(w1, r)
    ELSE w

\* BareTask.abort(); `by` only feeds the bookkeeping
BareAbort(w, by) ==
    IF w.active # 0
    THEN LET r == w.active
             w1 == [w EXCEPT !.runs[r].abortBy = by,
                             !.runs[r].abortFn = w.runs[r].fn,
                             !.runs[r].abortPromise = w.runs[r].promise.kind,
                             !.runs[r].abortState = w.state.kind]
         IN  [AbortHandleAbort(w1, r) EXCEPT !.active = 0]
    ELSE w

\* the hooks of a fresh AbortHandle after the executor of BareTask.run() ran:
\* first the hook resolving the run to aborted, then the nh hooks the wrapped
\* function registered through onAbort
HooksOf(nh) ==
    <<[k |-> "resolve", fn |-> 0, throws |-> FALSE, calls |-> 0, at |-> 0]>>
    \o [i \in 1..nh |-> [k |-> "user", fn |-> i, throws |-> FALSE, calls |-> 0, at |-> 0]]

\* variant of BareTask.run(): the previous run is not aborted first
BareRun_NoAbort(w, inp) ==
    LET r == Len(w.runs) + 1
        thrown == inp.beh = "throws"
        rec == [NoRun EXCEPT
                  !.fn = IF thrown THEN "thrown" ELSE "pending",
                  !.fnVal = IF thrown THEN r ELSE 0,
                  !.hooks = HooksOf(inp.nh),
                  !.promise = IF thrown THEN [kind |-> "rejected", val |-> r]
                              ELSE PromisePending,
                  !.sawKind = w.state.kind,
                  !.inflight = Cardinality({q \in 1..Len(w.runs) :
                                              w.runs[q].promise.kind = "pending"})]
    IN  [w EXCEPT !.runs = Append(@, rec), !.active = r]

\* BareTask.run(); inp describes what the wrapped function does when invoked:
\* it registers inp.nh hooks and then either returns a promise (settled later
\* by FnSettle) or throws.  Every run produces a fresh value: run r's data or
\* error is the value r.
BareRun(w, inp) ==
    LET w1 == BareAbort(w, "run")
        r == Len(w1.runs) + 1
        thrown == inp.beh = "throws"
        rec == [NoRun EXCEPT
                  !.fn = IF thrown THEN "thrown" ELSE "pending",
                  !.fnVal = IF thrown THEN r ELSE 0,
                  !.hooks = HooksOf(inp.nh),
                  \* an exception in the executor rejects the new promise
                  !.promise = IF thrown THEN [kind |-> "rejected", val |-> r]
                              ELSE PromisePending,
                  !.sawKind = w1.state.kind,
                  !.inflight = Cardinality({q \in 1..Len(w1.runs) :
                                              w1.runs[q].promise.kind = "pending"})]
    IN  [w1 EXCEPT !.runs = Append(@, rec), !.active = r]

\* variant of run() of useTask: the wrapped function is invoked before the
\* state is set to pending
UseTaskRun_FnFirst(w, inp) ==
    LET w1 == BareAbort(w, "run")
        w2 == BareRun(w1, inp)
        w3 == setTaskStateWithEqualityCheck(w2, STATE_PENDING_RAW)
        r == Len(w3.runs)
        w4 == IF w3.runs[r].promise.kind # "pending"
              THEN [w3 EXCEPT !.queue = Append(@, [t |-> "taskThen", r |-> r])]
              ELSE w3
    IN  [w4 EXCEPT !.lastRun = r,
                   !.runs = [q \in DOMAIN @ |->
                               IF q = r THEN [@[q] EXCEPT !.fromKind = w.state.kind,
                                                       !.runNotes = w4.assigns]
                               ELSE IF @[q].ret.kind = "pending"
                                    THEN [@[q] EXCEPT !.superseded = TRUE] ELSE @[q]]]

\* ---- useTask --------------------------------------------------------------
\* run() of useTask
UseTaskRun(w, inp) ==
    LET w1 == BareAbort(w, "run")
        w2 == setTaskStateWithEqualityCheck(w1, STATE_PENDING_RAW)
        w3 == BareRun(w2, inp)
        r == Len(w3.runs)
        \* bare.run().then(...): a reaction on a settled promise is queued at once
        w4 == IF w3.runs[r].promise.kind # "pending"
              THEN [w3 EXCEPT !.queue = Append(@, [t |-> "taskThen", r |-> r])]
              ELSE w3
    IN  [w4 EXCEPT !.lastRun = r,
                   !.runs = [q \in DOMAIN @ |->
                               IF q = r THEN [@[q] EXCEPT !.fromKind = w.state.kind,
                                                       !.runNotes = w4.assigns]
                               ELSE IF @[q].ret.kind = "pending"
                                    THEN [@[q] EXCEPT !.superseded = TRUE] ELSE @[q]]]

\* the callback passed to bare.run().then() in useTask.run
TaskThen(w, r) ==
    LET p == w.runs[r].promise
    IN  IF p.kind = "rejected"
        THEN [w EXCEPT !.runs[r].ret = p]      \* no rejection handler: passes through
        ELSE LET ws == setTaskStateWithEqualityCheck(w,
                          IF p.kind = "aborted" THEN STATE_ABORTED_RAW ELSE p)
                 w1 == IF w.lastRun = r
                       THEN [ws EXCEPT !.runs[r].wrote = p.kind,
                                       !.runs[r].thenNotes = ws.assigns]
                       ELSE w
             IN  [w1 EXCEPT !.runs[r].ret = p]

\* .then((data) => resolve({ kind: 'ok', data })) on the wrapped function's
\* promise; a rejection passes through to the .catch reaction
FnThen(w, r) ==
    IF w.runs[r].fn = "ok"
    THEN resolve(w, r, [kind |-> "ok", val |-> w.runs[r].fnVal])
    ELSE [w EXCEPT !.queue = Append(@, [t |-> "fnCatch", r |-> r])]

\* .catch((error) => resolve({ kind: 'err', error }))
FnCatch(w, r) == resolve(w, r, [kind |-> "err", val |-> w.runs[r].fnVal])

\* ---- useTask of core-new ----------------------------------------------------
STATE_UNINIT == [kind |-> "uninit", val |-> 0]

STATE_PENDING == [kind |-> "pending", val |-> 0]

\* doAbort(): if (active) { active.abort.abort(); active = null }
doAbort(w, by) ==
    IF w.active # 0
    THEN LET r == w.active
             w1 == [w EXCEPT !.runs[r].abortBy = by,
                             !.runs[r].abortFn = w.runs[r].fn,
                             !.runs[r].abortPromise = w.runs[r].promise.kind,
                             !.runs[r].abortState = w.state.kind]
         IN  [AbortHandleAbort(w1, r) EXCEPT !.active = 0]
    ELSE w

\* run(abort = true): the executor sets the state to pending, registers the
\* hook resolving the promise to TASK_RUN_ABORT and calls fn; `active` is set
\* after .then().catch() have been attached
NewRun(w, inp) ==
    LET w1 == IF inp.abort THEN doAbort(w, "run") ELSE w
        w2 == [w1 EXCEPT !.state = STATE_PENDING]
        r == Len(w2.runs) + 1
        thrown == inp.beh = "throws"
        rec == [NoRun EXCEPT
                  !.fn = IF thrown THEN "thrown" ELSE "pending",
                  !.fnVal = IF thrown THEN r ELSE 0,
                  !.hooks = HooksOf(inp.nh),
                  \* an exception in the executor rejects the new promise
                  !.promise = IF thrown THEN [kind |-> "rejected", val |-> r]
                              ELSE PromisePending,
                  !.fromKind = w.state.kind,
                  !.sawKind = w2.state.kind]
    IN  [w2 EXCEPT !.runs = Append(@, rec),
                   !.active = r,
                   !.queue = IF thrown THEN Append(@, [t |-> "newThen", r |-> r]) ELSE @]

\* .then(resolve) on the promise of fn; a rejection passes on to .catch(reject)
NewFnThen(w, r) ==
    IF w.runs[r].fn = "ok"
    THEN resolve(w, r, [kind |-> "ok", val |-> w.runs[r].fnVal])
    ELSE [w EXCEPT !.queue = Append(@, [t |-> "fnCatch", r |-> r])]

\* .catch(reject)
NewFnCatch(w, r) == resolve(w, r, [kind |-> "rejected", val |-> w.runs[r].fnVal])

\* the callback of .then((result) => ...): thisPromise is the promise of this
\* run's chain, active the run `active` holds; a rejection passes on to .catch
NewThen(w, r) ==
    LET p == w.runs[r].promise
    IN  IF p.kind = "rejected"
        THEN [w EXCEPT !.queue = Append(@, [t |-> "newCatch", r |-> r])]
        ELSE IF w.active = r
             THEN [w EXCEPT !.state = IF p.kind = "aborted" THEN STATE_UNINIT ELSE p,
                            !.runs[r].wrote = IF p.kind = "aborted" THEN "uninit" ELSE p.kind,
                            !.runs[r].ret = p]
             ELSE [w EXCEPT !.runs[r].ret = p]

\* the callback of .catch((error) => ...)
NewCatch(w, r) ==
    LET p == [kind |-> "err", val |-> w.runs[r].promise.val]
    IN  IF w.active = r
        THEN [w EXCEPT !.state = p, !.runs[r].wrote = "err", !.runs[r].ret = p]
        ELSE [w EXCEPT !.runs[r].ret = p]

\* ---- useErrorRetry --------------------------------------------------------
\* the watch source: lastResult.value?.kind === 'err' && retriesCount.value < count
DoRetries(w) == w.retry.lastResult = "err" /\ w.retry.retries < w.retry.count

\* retriesCount.value = v: triggers the watcher when the value changes and the
\* watcher's last evaluation read retriesCount
SetRetries(w, v) ==
    LET w1 == [w EXCEPT !.retry.retries = v]
    IN  IF v # w.retry.retries /\ w.retry.tracks THEN QueueJob(w1) ELSE w1

\* resetCounter(), returned to the user as `reset`
resetCounter(w) == SetRetries(w, 0)

\* the watch callback
WatchCallback(w, doRetries) ==
    IF doRetries
    THEN [w EXCEPT !.retry.timer = TRUE]                      \* refreshInterval.resume()
    ELSE [resetCounter(w) EXCEPT !.retry.timer = FALSE]       \* resetCounter(); pause()

\* the watcher's job: evaluate the source, call the callback if it changed
WatchJob(w) ==
    LET new == DoRetries(w)
        w1 == [w EXCEPT !.retry.jobQueued = FALSE,
                        !.retry.tracks = (w.retry.lastResult = "err")]
    IN  IF new # w.retry.watchOld
        THEN [WatchCallback(w1, new) EXCEPT !.retry.watchOld = new]
        ELSE w1

\* Vue's flushJobs: runs the queued job; a job queued by a watch callback
\* (watcher jobs may re-queue themselves) runs in the same flush
RECURSIVE FlushJobs(_)
FlushJobs(w) ==
    IF w.retry.jobQueued
    THEN FlushJobs([WatchJob(w) EXCEPT
                      !.queue = SelectSeq(@, LAMBDA e : e.t # "flush")])
    ELSE w

\* the callback of useIntervalFn
IntervalCallback(w, inp) ==
    LET w1 == SetRetries(w, w.retry.retries + 1)
    IN  UseTaskRun([w1 EXCEPT !.retry.ticks = @ + 1], inp)

\* useErrorRetry(task, {count}) right after it was called on a fresh task: the
\* immediate watcher ran once with lastResult = null
RetryInit(count) == [RetryOff EXCEPT !.on = TRUE, !.count = count]

\* ---- keys of useParamScope ------------------------------------------------
\* A value of the key source.  tag: "false" | "null" | "undefined" | "true" |
\* "plain" (a string, number or symbol) | "composed" ({key, payload}).
\* ty/v describe the primitive: a string is identified by v with v = 0 the
\* empty string, a number is v itself, a symbol is identified by v.
KeyVal(tag, ty, v, payload) == [tag |-> tag, ty |-> ty, v |-> v, payload |-> payload]

NullKey == KeyVal("null", "none", 0, 0)

TrueKey == KeyVal("true", "none", 0, 0)

FalsyKeys == { KeyVal(t, "none", 0, 0) : t \in {"false", "null", "undefined"} }

Primitives ==
    { <<"string", 0>>, <<"string", 1>>, <<"number", 0>>, <<"number", 1>>, <<"symbol", 1>> }

PlainKeys == { KeyVal("plain", p[1], p[2], 0) : p \in Primitives }

Payloads == {1, 2}

ComposedKeys == { KeyVal("composed", p[1], p[2], pl) : p \in Primitives, pl \in Payloads }

KeySourceValues == FalsyKeys \cup {TrueKey} \cup PlainKeys \cup ComposedKeys

\* null, or { some: value }
falsyKeyToMaybe(value) ==
    IF value.tag \in {"null", "undefined", "false"}
    THEN [some |-> FALSE, value |-> NullKey]
    ELSE [some |-> TRUE, value |-> value]

isPlainKey(key) == key.tag = "true" \/ (key.tag = "plain" /\ key.ty \in {"string", "number", "symbol"})

getKeyOnly(key) == IF isPlainKey(key) THEN key ELSE KeyVal("plain", key.ty, key.v, 0)

\* what spreadKey adds to the exposed record: nothing | {key} | {key, payload}
NoSpread == [has |-> "none", key |-> NullKey, payload |-> 0]

spreadKey(key) ==
    IF key.tag = "composed"
    THEN [has |-> "keypayload", key |-> KeyVal("plain", key.ty, key.v, 0), payload |-> key.payload]
    ELSE [has |-> "key", key |-> key, payload |-> 0]

\* JavaScript's !x for a resolved key
JsFalsy(onlyKey) ==
    \/ onlyKey.tag \in {"null", "undefined", "false"}
    \/ onlyKey.tag = "plain" /\ onlyKey.ty \in {"string", "number"} /\ onlyKey.v = 0

\* the source of the watcher of useParamScope: the resolved key
ResolvedKey(value) ==
    LET maybe == falsyKeyToMaybe(value)
    IN  IF ~maybe.some THEN NullKey ELSE getKeyOnly(maybe.value)

\* ---- useDeferredScope -----------------------------------------------------
\* scopeSetupReturn.value = null
NullExpose == [kind |-> "null", expose |-> 0, spread |-> NoSpread]

\* the scope world as one value, threaded through the handlers
SW ==
    [ main |-> main, scopes |-> scopes, child |-> child,
      ret |-> scopeSetupReturn, keyRef |-> keyRef, pw |-> pwatch ]

\* variant of EffectScope.stop(): an inactive scope runs its cleanups again
EffectScopeStop_NoGuard(s, i, by) ==
    [s EXCEPT !.scopes[i].active = FALSE,
              !.scopes[i].calls = [h \in DOMAIN @ |-> @[h] + 1],
              !.scopes[i].by = IF @ = "none" THEN by ELSE @]

\* EffectScope.stop() of child scope i: an active scope runs its cleanups and
\* becomes inactive; `by` only feeds the bookkeeping
EffectScopeStop(s, i, by) ==
    IF s.scopes[i].active
    THEN [s EXCEPT !.scopes[i].active = FALSE,
                   !.scopes[i].calls = [h \in DOMAIN @ |-> @[h] + 1],
                   !.scopes[i].by = by]
    ELSE s

\* variant of dispose(): the exposed value is kept
dispose_KeepValue(s, by) ==
    IF s.child # 0
    THEN [EffectScopeStop(s, s.child, by) EXCEPT !.child = 0]
    ELSE s

\* dispose() of useDeferredScope
dispose(s, by) ==
    IF s.child # 0
    THEN [EffectScopeStop(s, s.child, by) EXCEPT !.child = 0, !.ret = NullExpose]
    ELSE s

\* main.run(() => { scope = effectScope(); scope.run(() => { value = { expose: fn() } }) })
\* an inactive scope does not run the function given to run(); fn registers
\* inp.nh teardown hooks, is given inp.arg and returns a fresh value (the id of
\* its scope) with inp.spread added
MainRun(s, inp) ==
    IF s.main = "stopped" THEN s
    ELSE LET i == Len(s.scopes) + 1
             rec == [ active |-> TRUE,
                      calls |-> [h \in 1..inp.nh |-> 0],
                      arg |-> inp.arg,
                      \* bookkeeping for the properties
                      by |-> "none",
                      liveAtFn |-> Cardinality({q \in 1..Len(s.scopes) : s.scopes[q].active}),
                      pendingAtFn |-> Cardinality({q \in 1..Len(s.scopes) :
                                          \E h \in DOMAIN s.scopes[q].calls :
                                              s.scopes[q].calls[h] = 0}) ]
         IN  [s EXCEPT !.scopes = Append(@, rec),
                       !.child = i,
                       !.ret = [kind |-> "some", expose |-> i, spread |-> inp.spread]]

\* variant of setup(): the existing child scope is not disposed first
setup_NoDispose(s, inp) == MainRun(s, inp)

\* setup(fn) of useDeferredScope
setup(s, inp) == MainRun(dispose(s, "setup"), inp)

RECURSIVE StopChildren(_, _)
StopChildren(s, i) ==
    IF i > Len(s.scopes) THEN s ELSE StopChildren(EffectScopeStop(s, i, "main"), i + 1)

\* variant of the cascade: child scopes are created detached from main
MainStopCascade_Detached(s) == [s EXCEPT !.main = "stopped", !.pw.active = FALSE]

\* main.stop(): the effects of the scope (the watcher of useParamScope) are
\* stopped, then its child scopes
MainStopCascade(s) ==
    StopChildren([s EXCEPT !.main = "stopped", !.pw.active = FALSE], 1)

\* ---- useParamScope ----------------------------------------------------------
\* the watcher before its first run
WatcherInitial == [active |-> TRUE, ran |-> FALSE, old |-> NullKey, jobQueued |-> FALSE]

\* two values of the key source are composed keys with the same key
SameComposedKey(a, b) ==
    a.tag = "composed" /\ b.tag = "composed" /\ a.ty = b.ty /\ a.v = b.v

\* variant of the watch callback: a falsy resolved key still sets a scope up
ParamCallback_NoFalsy(s, onlyKey, nh) ==
    IF onlyKey.tag = "true"
    THEN setup(s, [nh |-> nh, arg |-> TrueKey, spread |-> NoSpread])
    ELSE LET fullKey == falsyKeyToMaybe(s.keyRef).value
         IN  setup(s, [nh |-> nh, arg |-> fullKey, spread |-> spreadKey(fullKey)])

\* the watch callback of useParamScope
ParamCallback(s, onlyKey, nh) ==
    IF JsFalsy(onlyKey)
    THEN dispose(s, "dispose")
    ELSE IF onlyKey.tag = "true"
         THEN setup(s, [nh |-> nh, arg |-> TrueKey, spread |-> NoSpread])
         ELSE LET fullKey == falsyKeyToMaybe(s.keyRef).value
              IN  setup(s, [nh |-> nh, arg |-> fullKey, spread |-> spreadKey(fullKey)])

\* the watcher's job: a stopped watcher does nothing; otherwise the source is
\* evaluated and the callback runs if the resolved key changed (Object.is), or
\* on the first (immediate) run
ParamWatchJob(s, nh) ==
    LET s1 == [s EXCEPT !.pw.jobQueued = FALSE]
        new == ResolvedKey(s.keyRef)
    IN  IF ~s.pw.active THEN s1
        ELSE IF ~s.pw.ran \/ new # s.pw.old
             THEN ParamCallback([s1 EXCEPT !.pw.ran = TRUE, !.pw.old = new], new, nh)
             ELSE s1

\* the ref returned by useParamScope: deferred.scope.value?.expose ?? null,
\* null or the record { expose, ...spreadKey(fullKey) } the setup wrapper returned
ParamRef(s) ==
    IF s.ret.kind = "null" THEN NullExpose
    ELSE [kind |-> "some", expose |-> s.ret.expose, spread |-> s.ret.spread]

CommitScope(s) ==
    /\ main' = s.main
    /\ scopes' = s.scopes
    /\ child' = s.child
    /\ scopeSetupReturn' = s.ret
    /\ keyRef' = s.keyRef
    /\ pwatch' = s.pw
    /\ smode' = smode
    /\ UNCHANGED <<taskVars, promiseVars, swrVars>>

\* no DeferredScope / ParamScope in the program
ScopeIdle ==
    /\ smode = "off"
    /\ main = "detached"
    /\ scopes = <<>>
    /\ child = 0
    /\ scopeSetupReturn = NullExpose
    /\ keyRef = NullKey
    /\ pwatch = [WatcherInitial EXCEPT !.active = FALSE]
    /\ keySets = 0
    /\ constKey = FALSE
    /\ lastCall = "none"

\* ---- usePromise -------------------------------------------------------------
\* state of usePromise(): `fulfilled` / `rejected` are 0 (null) or the id of the
\* promise whose { value } / { reason } object they hold (each is a fresh object)
PromiseStateEmpty == [pending |-> FALSE, fulfilled |-> 0, rejected |-> 0]

PromiseStatePending == [pending |-> TRUE, fulfilled |-> 0, rejected |-> 0]

\* a promise given to set(), before it settles
NewPromise ==
    [ st |-> "pending",         \* "pending" | "fulfilled" | "rejected"
      \* bookkeeping for the properties
      then |-> "pending",       \* state of promise.then(..): pending | fulfilled | rejected
      chain |-> "pending",      \* state of promise.then(..).catch(..), likewise
      wrote |-> FALSE,          \* its result was written to the state
      superseded |-> FALSE,     \* set() or clear() was called while it was pending
      byTimer |-> FALSE ]       \* it was set by the retry callback

\* useErrorRetry(state, retry, {count}) not attached
PromiseRetryOff ==
    [ on |-> FALSE, count |-> 0,
      lastResult |-> FALSE,     \* lastResult.value is the state object (not null)
      retries |-> 0,            \* retriesCount.value
      timer |-> FALSE,          \* the interval of useIntervalFn is running
      doneOld |-> [k |-> "null", id |-> 0],   \* wheneverDone: last value of its source
      doneDeps |-> {},          \* what the source of wheneverDone read last time
      watchOld |-> FALSE,       \* watcher of useErrorRetry: last value of its source
      watchDeps |-> {},         \* what that source read last time
      jobs |-> <<>>,            \* Vue's queue of watcher jobs: "done" | "retry"
      ticks |-> 0,              \* bookkeeping: retries invoked from the timer
      userReset |-> FALSE ]     \* bookkeeping: reset() of the user changed the counter

\* the usePromise world as one value, threaded through the handlers
PW ==
    [ promises |-> promises, pactive |-> pactive, pstate |-> pstate,
      seen |-> <<>>, pqueue |-> pqueue, er |-> pretry ]

\* Vue's queueJob: a job is queued once (a running job has left the queue and
\* may be queued again); the first queued job schedules the flush microtask
PromiseQueueJob(p, job) ==
    IF \E i \in 1..Len(p.er.jobs) : p.er.jobs[i] = job THEN p
    ELSE [p EXCEPT !.er.jobs = Append(@, job),
                   !.pqueue = IF \E i \in 1..Len(p.pqueue) : p.pqueue[i].t = "flush"
                              THEN @ ELSE Append(@, [t |-> "flush", p |-> 0])]

\* a reactive value was changed: every watcher whose source read it is queued
PromiseTrigger(p, dep) ==
    LET p1 == IF p.er.on /\ dep \in p.er.doneDeps THEN PromiseQueueJob(p, "done") ELSE p
    IN  IF p1.er.on /\ dep \in p1.er.watchDeps THEN PromiseQueueJob(p1, "retry") ELSE p1

\* the state is shallowReactive: an assignment that changes a property runs
\* the synchronous readers of that property at once, in the middle of the
\* handler; seen lists the states such a reader is shown during the handler
PromiseObserve(p) == [p EXCEPT !.seen = Append(@, p.pstate)]

\* state.pending = v
SetPending(p, v) ==
    IF p.pstate.pending = v THEN p
    ELSE PromiseObserve([p EXCEPT !.pstate.pending = v])

\* state.fulfilled = v
SetFulfilled(p, v) ==
    IF p.pstate.fulfilled = v THEN p
    ELSE PromiseTrigger(PromiseObserve([p EXCEPT !.pstate.fulfilled = v]), "fulfilled")

\* state.rejected = v
SetRejected(p, v) ==
    IF p.pstate.rejected = v THEN p
    ELSE PromiseTrigger(PromiseObserve([p EXCEPT !.pstate.rejected = v]), "rejected")

\* set(promise): the promise is new and pending; its reactions run when it settles
PromiseSetOp(p, timer) ==
    LET i == Len(p.promises) + 1
        p1 == [p EXCEPT !.promises =
                   Append([q \in DOMAIN @ |->
                             IF @[q].st = "pending" THEN [@[q] EXCEPT !.superseded = TRUE]
                             ELSE @[q]],
                          [NewPromise EXCEPT !.byTimer = timer]),
                        !.pactive = i]
    IN  SetRejected(SetFulfilled(SetPending(p1, TRUE), 0), 0)

\* variant of clear(): the fulfilled value is left in the state
PromiseClearOp_KeepFulfilled(p) ==
    LET p1 == [p EXCEPT !.promises =
                   [q \in DOMAIN @ |->
                      IF @[q].st = "pending" THEN [@[q] EXCEPT !.superseded = TRUE]
                      ELSE @[q]],
                        !.pactive = 0]
    IN  SetRejected(SetPending(p1, FALSE), 0)

\* clear(): state.fulfilled = state.rejected = null assigns rejected first
PromiseClearOp(p) ==
    LET p1 == [p EXCEPT !.promises =
                   [q \in DOMAIN @ |->
                      IF @[q].st = "pending" THEN [@[q] EXCEPT !.superseded = TRUE]
                      ELSE @[q]],
                        !.pactive = 0]
    IN  SetFulfilled(SetRejected(SetPending(p1, FALSE), 0), 0)

\* a promise derived by then() / catch() settles when its reaction has run:
\* fulfilled when the callback returned, rejected when it threw
Derived(outcome) == IF outcome = "threw" THEN "rejected" ELSE "fulfilled"

\* the promise of promise.then(..) settles; the reaction that .catch(..)
\* registered on it becomes a microtask, behind whatever the callback queued
ThenSettles(p, i, st) ==
    [p EXCEPT !.promises[i].then = st,
              !.pqueue = Append(@, [t |-> "catch", p |-> i])]

\* variant of the fulfilment callback: no check that the promise is the active one
PromiseThen_NoCheck(p, i) ==
    IF p.promises[i].st = "fulfilled"
    THEN ThenSettles([SetFulfilled(SetPending(p, FALSE), i)
                        EXCEPT !.promises[i].wrote = TRUE],
                     i, Derived("returned"))
    ELSE ThenSettles(p, i, "rejected")

\* the reaction registered by promise.then(): on fulfilment the callback runs
\* and the derived promise is fulfilled; then() has no rejection callback, so
\* a rejection passes on to the derived promise
PromiseThen(p, i) ==
    IF p.promises[i].st = "fulfilled"
    THEN IF i = p.pactive
         THEN ThenSettles([SetFulfilled(SetPending(p, FALSE), i)
                             EXCEPT !.promises[i].wrote = TRUE],
                          i, Derived("returned"))
         ELSE ThenSettles(p, i, Derived("returned"))
    ELSE ThenSettles(p, i, "rejected")

\* the reaction registered by .catch(), one microtask after the reaction of
\* then(): a fulfilment passes through; on a rejection the callback runs and
\* returns normally whether or not the promise is the active one, so the
\* chain ends fulfilled
PromiseCatch(p, i) ==
    IF p.promises[i].then = "fulfilled"
    THEN [p EXCEPT !.promises[i].chain = "fulfilled"]
    ELSE IF i = p.pactive
         THEN [SetRejected(SetPending(p, FALSE), i)
                 EXCEPT !.promises[i].wrote = TRUE,
                        !.promises[i].chain = Derived("returned")]
         ELSE [p EXCEPT !.promises[i].chain = Derived("returned")]

\* ---- useErrorRetry (PromiseStateAtomic variant) ------------------------------
\* source of wheneverDone: state.rejected || state.fulfilled
DoneSource(p) ==
    IF p.pstate.rejected # 0 THEN [k |-> "rejected", id |-> p.pstate.rejected]
    ELSE IF p.pstate.fulfilled # 0 THEN [k |-> "fulfilled", id |-> p.pstate.fulfilled]
    ELSE [k |-> "null", id |-> 0]

DoneDeps(p) == IF p.pstate.rejected # 0 THEN {"rejected"} ELSE {"rejected", "fulfilled"}

\* the job of wheneverDone: (x) => x && (lastResult.value = state); lastResult
\* is a shallowRef, assigning the same state object again triggers nothing
DoneJob(p) ==
    LET new == DoneSource(p)
        p1 == [p EXCEPT !.er.doneDeps = DoneDeps(p)]
    IN  IF new # p.er.doneOld
        THEN LET p2 == [p1 EXCEPT !.er.doneOld = new]
             IN  IF new.k # "null" /\ ~p2.er.lastResult
                 THEN PromiseTrigger([p2 EXCEPT !.er.lastResult = TRUE], "lastResult")
                 ELSE p2
        ELSE p1

\* source of the watcher of useErrorRetry:
\* !!lastResult.value?.rejected && retriesCount.value < count
\* (lastResult.value is the reactive state object itself)
PromiseDoRetries(p) ==
    p.er.lastResult /\ p.pstate.rejected # 0 /\ p.er.retries < p.er.count

PromiseWatchDeps(p) ==
    {"lastResult"}
        \cup (IF p.er.lastResult THEN {"rejected"} ELSE {})
        \cup (IF p.er.lastResult /\ p.pstate.rejected # 0 THEN {"retries"} ELSE {})

\* retriesCount.value = v
PromiseSetRetries(p, v) ==
    IF p.er.retries = v THEN p
    ELSE PromiseTrigger([p EXCEPT !.er.retries = v], "retries")

\* resetCounter(), returned to the user as `reset`
PromiseResetCounter(p) == PromiseSetRetries(p, 0)

\* the watch callback of useErrorRetry
PromiseWatchCallback(p, doRetries) ==
    IF doRetries
    THEN [p EXCEPT !.er.timer = TRUE]                            \* resume()
    ELSE [PromiseResetCounter(p) EXCEPT !.er.timer = FALSE]      \* resetCounter(); pause()

PromiseWatchJob(p) ==
    LET new == PromiseDoRetries(p)
        p1 == [p EXCEPT !.er.watchDeps = PromiseWatchDeps(p)]
    IN  IF new # p.er.watchOld
        THEN PromiseWatchCallback([p1 EXCEPT !.er.watchOld = new], new)
        ELSE p1

\* Vue's flush: the queued jobs run in order; jobs queued meanwhile run in the
\* same flush
RECURSIVE PromiseFlushJobs(_)
PromiseFlushJobs(p) ==
    IF p.er.jobs = <<>>
    THEN [p EXCEPT !.pqueue = SelectSeq(@, LAMBDA e : e.t # "flush")]
    ELSE LET job == Head(p.er.jobs)
             p1 == [p EXCEPT !.er.jobs = Tail(@)]
         IN  PromiseFlushJobs(IF job = "done" THEN DoneJob(p1) ELSE PromiseWatchJob(p1))

\* the callback of useIntervalFn: retriesCount.value++; retry(), where retry
\* sets a new promise (run() of useTask over usePromise)
PromiseIntervalCallback(p) ==
    LET p1 == PromiseSetRetries(p, p.er.retries + 1)
    IN  PromiseSetOp([p1 EXCEPT !.er.ticks = @ + 1], TRUE)

\* useErrorRetry right after it was called on the state of a fresh
\* usePromise(): both immediate watchers ran once on the empty state
PromiseRetryInit(count) ==
    [PromiseRetryOff EXCEPT !.on = TRUE, !.count = count,
                            !.doneDeps = {"rejected", "fulfilled"},
                            !.watchDeps = {"lastResult"}]

CommitPromise(p) ==
    /\ promises' = p.promises
    /\ pactive' = p.pactive
    /\ pstate' = p.pstate
    /\ pseen' = p.seen
    /\ pqueue' = p.pqueue
    /\ pretry' = p.er
    /\ pmode' = pmode
    /\ UNCHANGED <<taskVars, scopeVars, swrVars>>

\* no usePromise in the program
PromiseIdle ==
    /\ pmode = "off"
    /\ promises = <<>>
    /\ pactive = 0
    /\ pstate = PromiseStateEmpty
    /\ pseen = <<>>
    /\ pqueue = <<>>
    /\ pretry = PromiseRetryOff

\* ---- useSwr ------------------------------------------------------------------
\* resource keys; 0 stands for "no fetch" (the fetch config is null)
SwrKeys == {1, 2}

\* the plugins of the model: one that returns, one that throws synchronously,
\* and pluginRefreshOnCapture(), the plugin of the library that acts on the
\* resource inside the set-up (pluginErrorRetry only registers a watcher and
\* a timer: it returns, and its refresh() comes later, as a call of the user's)
PluginKinds == {"returns", "throws", "refreshOnCapture"}

\* params.use where it is not an input: three plugins, the second one throws
DefaultPlugins == <<"returns", "throws", "returns">>

\* params.use as an input: every list of up to MaxPlugins plugins, the empty
\* list standing for an absent `use` as well
UseLists == UNION {[1..n -> PluginKinds] : n \in 0..MaxPlugins}

\* resourceEmptyState(); null is 0, data and error hold the number of the fetch
\* that produced them
resourceEmptyState == [data |-> 0, error |-> 0, fresh |-> FALSE, pending |-> FALSE]

\* the state objects the user gives to store.set: any ResourceState; data and
\* error of the user are the number -1
UserStates ==
    [data : {0, -1}, error : {0, -1}, fresh : BOOLEAN, pending : BOOLEAN]

\* no scope of the outer useSourceScope (the one keyed by the resource key)
NoKeyScope == [id |-> 0, key |-> 0, aOld |-> FALSE, bOld |-> 0]

\* no scope of the inner useSourceScope (the one that owns a state object)
NoResScope ==
    [ id |-> 0, active |-> FALSE,
      st |-> 0,                 \* the state object the set-up closed over
      currentFetchTask |-> 0,
      trigOld |-> FALSE,        \* fetch-trigger watcher: last value of its source
      trigFresh |-> FALSE ]     \* triggerExecuteFetch read state.fresh last time

\* a fetch started by executeFetch while fetch.value was a keyed fetch
NewFetch ==
    [ st |-> 0,                 \* the state object executeFetch was given
      setup |-> 0,              \* the resource set-up whose trigger started it
      fn |-> "pending",         \* promise returned by fetch.fn: pending | ok | err | thrown
      promise |-> "pending",    \* the awaited promise: pending | aborted | data | error
      hook |-> TRUE,            \* fetch.fn registered an abort hook
      hookCalls |-> 0,          \* how many times that hook was invoked
      \* bookkeeping for the properties (not read by any operation)
      abortBy |-> "none",       \* what called abort(): force | soft (refresh),
                                \* trigger, key | recompute | scope | state (disposal)
      abortAt |-> "none",       \* the awaited promise at that moment, "done" once
                                \* executeFetch had finished
      committed |-> "none",     \* what executeFetch wrote to the state: data | error
      soft |-> FALSE ]          \* refresh() without force was called while in flight

\* the useSwr world as one value, threaded through the handlers
SR ==
    [ swr |-> swr, keyScope |-> keyScope, resScope |-> resScope,
      resource |-> resource, store |-> store, states |-> states,
      fetches |-> fetches, sq |-> sq, sjobs |-> sjobs, setups |-> setups ]

\* Vue's queueJob for the watchers (flush: 'pre'): a job is queued once, the
\* first queued job schedules the flush microtask
SwrQueueJob(r, job) ==
    IF \E i \in 1..Len(r.sjobs) : r.sjobs[i] = job THEN r
    ELSE [r EXCEPT !.sjobs = Append(@, job),
                   !.sq = IF \E i \in 1..Len(r.sq) : r.sq[i].t = "flush"
                          THEN @ ELSE Append(@, [t |-> "flush", a |-> 0])]

\* the computed `state` of the key's scope was invalidated: both watchers on
\* it are queued
StateInvalidated(r) ==
    SwrQueueJob(SwrQueueJob(r, [j |-> "A", id |-> r.keyScope.id]),
                [j |-> "B", id |-> r.keyScope.id])

\* store.set(key, v) of the amnesia store, storage.set(key, v) on a reactive
\* Map: a new entry or a changed value triggers the readers of the key, here
\* the computed `state` of the key's scope; store.get reads a missing entry
\* and an entry holding null alike (0)
StoreSet(r, k, v) ==
    IF k \in r.swr.entries /\ r.store[k] = v THEN r
    ELSE LET r1 == [r EXCEPT !.store[k] = v, !.swr.entries = @ \cup {k}]
         IN  IF r1.keyScope.id # 0 /\ r1.keyScope.key = k
             THEN StateInvalidated(r1) ELSE r1

\* store.storage.delete(key): removing an entry triggers the readers of the key
StorageDelete(r, k) ==
    IF k \notin r.swr.entries THEN r
    ELSE LET r1 == [r EXCEPT !.store[k] = 0, !.swr.entries = @ \ {k}]
         IN  IF r1.keyScope.id # 0 /\ r1.keyScope.key = k
             THEN StateInvalidated(r1) ELSE r1

\* store.storage.clear(): every entry is removed; a Map that had entries
\* triggers the readers of every key
StorageClear(r) ==
    IF r.swr.entries = {} THEN r
    ELSE LET r1 == [r EXCEPT !.store = [q \in SwrKeys |-> 0], !.swr.entries = {}]
         IN  IF r1.keyScope.id # 0 THEN StateInvalidated(r1) ELSE r1

\* state.pending = v on state object s; triggerExecuteFetch always reads pending
SetStatePending(r, s, v) ==
    IF r.states[s].pending = v THEN r
    ELSE LET r1 == [r EXCEPT !.states[s].pending = v]
         IN  IF r1.resScope.active /\ r1.resScope.st = s
             THEN SwrQueueJob(r1, [j |-> "C", id |-> r1.resScope.id])
             ELSE r1

\* state.fresh = v on state object s; triggerExecuteFetch reads fresh only when
\* pending was false (!state.pending && !state.fresh)
SetStateFresh(r, s, v) ==
    IF r.states[s].fresh = v THEN r
    ELSE LET r1 == [r EXCEPT !.states[s].fresh = v]
         IN  IF r1.resScope.active /\ r1.resScope.st = s /\ r1.resScope.trigFresh
             THEN SwrQueueJob(r1, [j |-> "C", id |-> r1.resScope.id])
             ELSE r1

\* abort() of initFetchAbort: every hook is called; the first hook is
\* resolve(FETCH_TASK_ABORTED), which settles the awaited promise only if it
\* is still pending, the next one is the hook of fetch.fn
FetchAbort(r, f, by) ==
    LET fr == r.fetches[f]
        r1 == [r EXCEPT !.fetches[f].hookCalls = IF fr.hook THEN @ + 1 ELSE @,
                        !.fetches[f].abortBy = by,
                        !.fetches[f].abortAt =
                            IF fr.committed # "none" THEN "done" ELSE fr.promise]
    IN  IF fr.promise = "pending"
        THEN [r1 EXCEPT !.fetches[f].promise = "aborted",
                        !.sq = Append(@, [t |-> "cont", a |-> f])]
        ELSE r1

abortFetchTaskIfThereIsSome(r, by) ==
    LET r1 == SetStatePending(r, r.resScope.st, FALSE)
        f == r1.resScope.currentFetchTask
    IN  IF f = 0 THEN r1
        ELSE [FetchAbort(r1, f, by) EXCEPT !.resScope.currentFetchTask = 0]

\* executeFetch up to its await: pending is set, the promise is created and
\* fetch.fn is called; with fetch.value null, fetch.fn throws a TypeError in
\* the executor and the promise is rejected at once
executeFetch(r) ==
    LET r1 == SetStatePending(r, r.resScope.st, TRUE)
        fr == [NewFetch EXCEPT !.st = r.resScope.st, !.setup = r.resScope.id]
    IN  IF r1.swr.fetchKey = 0
        THEN [r1 EXCEPT !.fetches = Append(@, [fr EXCEPT !.fn = "thrown",
                                                         !.promise = "error",
                                                         !.hook = FALSE]),
                        !.sq = Append(@, [t |-> "cont", a |-> Len(r1.fetches) + 1])]
        ELSE [r1 EXCEPT !.fetches = Append(@, fr)]

\* the callback of whenever(triggerExecuteFetch, ...)
TriggerCallback(r) ==
    LET r1 == executeFetch(abortFetchTaskIfThereIsSome(r, "trigger"))
    IN  [r1 EXCEPT !.resScope.currentFetchTask = Len(r1.fetches)]

\* triggerExecuteFetch
triggerExecuteFetch(r) ==
    ~r.states[r.resScope.st].pending /\ ~r.states[r.resScope.st].fresh

\* the job of the fetch-trigger watcher
TriggerJob(r) ==
    LET new == triggerExecuteFetch(r)
        r1 == [r EXCEPT !.resScope.trigFresh = ~r.states[r.resScope.st].pending]
    IN  IF new # r.resScope.trigOld
        THEN LET r2 == [r1 EXCEPT !.resScope.trigOld = new]
             IN  IF new THEN TriggerCallback(r2) ELSE r2
        ELSE r1

\* refresh(force) of the published resource
refresh(r, force) ==
    LET s == r.resScope.st
        f == r.resScope.currentFetchTask
        r1 == IF ~force /\ f # 0 /\ r.fetches[f].committed = "none"
              THEN [r EXCEPT !.fetches[f].soft = TRUE] ELSE r
        r2 == SetStateFresh(r1, s, FALSE)
    IN  IF force THEN abortFetchTaskIfThereIsSome(r2, "force") ELSE r2

\* pluginRefreshOnCapture(): if (resource.state.data) resource.refresh()
pluginRefreshOnCapture(r, u) ==
    IF r.states[r.resScope.st].data # 0
    THEN [refresh(r, FALSE) EXCEPT !.setups[u].refreshed = @ + 1]
    ELSE r

\* plugin(pluginCtx) in set-up u: plugin p of the list is called with the
\* resource just published
CallPlugin(r, u, p) ==
    LET r1 == [r EXCEPT !.setups[u].calls[p] = @ + 1]
    IN  IF r.swr.use[p] = "refreshOnCapture" THEN pluginRefreshOnCapture(r1, u) ELSE r1

\* variant of the loop body: no try/catch around the plugin
PluginStep_NoCatch(r, u, p) ==
    IF r.swr.use[p] = "throws"
    THEN [CallPlugin(r, u, p) EXCEPT !.setups[u].exc = TRUE]
    ELSE CallPlugin(r, u, p)

\* one iteration of the plugin loop of set-up u:
\* try { plugin(pluginCtx) } catch (err) { console.error(...) }
PluginStep(r, u, p) ==
    IF r.swr.use[p] = "throws"
    THEN [CallPlugin(r, u, p) EXCEPT !.setups[u].logged = @ + 1]
    ELSE CallPlugin(r, u, p)

\* for (const plugin of params.use ?? []): an exception that leaves the body
\* ends the loop
RECURSIVE PluginLoop(_, _, _)
PluginLoop(r, u, p) ==
    IF p > Len(r.swr.use) \/ r.setups[u].exc
    THEN r
    ELSE PluginLoop(PluginStep(r, u, p), u, p + 1)

\* set-up of the inner useSourceScope for state object s: the trigger watcher
\* runs at once (immediate), then the resource is published and the plugins run
ResSetup(r, s, cause) ==
    LET id == Len(r.setups) + 1
        r1 == [r EXCEPT !.resScope =
                  [ id |-> id, active |-> TRUE, st |-> s, currentFetchTask |-> 0,
                    trigOld |-> ~r.states[s].pending /\ ~r.states[s].fresh,
                    trigFresh |-> ~r.states[s].pending ]]
        r2 == IF triggerExecuteFetch(r1) THEN TriggerCallback(r1) ELSE r1
        r3 == [r2 EXCEPT !.resource = id,
                         !.setups = Append(@,
                            [ st |-> s, key |-> r.keyScope.key, cause |-> cause,
                              fresh |-> r.states[s].fresh,
                              fetched |-> triggerExecuteFetch(r1),
                              calls |-> [p \in 1..Len(r.swr.use) |-> 0],
                              logged |-> 0, refreshed |-> 0, exc |-> FALSE ])]
    IN  PluginLoop(r3, id, 1)

\* the inner scope is stopped: its watcher is stopped first, then the
\* onScopeDispose hook runs
ResDispose(r, by) ==
    IF r.resScope.id = 0 THEN r
    ELSE LET r1 == abortFetchTaskIfThereIsSome([r EXCEPT !.resScope.active = FALSE], by)
         IN  [r1 EXCEPT !.resource = 0, !.resScope = NoResScope]

\* set-up of the outer useSourceScope for key k: whenever(!state) and the
\* watcher of the inner useSourceScope both run at once (immediate)
KeySetup(r, k, cause) ==
    LET r1 == [r EXCEPT !.swr.keyCount = @ + 1,
                        !.keyScope = [ id |-> r.swr.keyCount + 1, key |-> k,
                                       aOld |-> (r.store[k] = 0),
                                       bOld |-> r.store[k] ]]
        r2 == IF r1.store[k] = 0
              THEN [r1 EXCEPT !.sq = Append(@, [t |-> "reset", a |-> k])]
              ELSE r1
    IN  IF r2.store[k] # 0 THEN ResSetup(r2, r2.store[k], cause) ELSE r2

\* the outer scope is stopped: its watchers stop, then its child scope
KeyDispose(r, by) ==
    IF r.keyScope.id = 0 THEN r
    ELSE [ResDispose(r, by) EXCEPT !.keyScope = NoKeyScope]

\* the job of the watcher of the outer useSourceScope; its source returns a
\* new { some: key } object at every evaluation, so a non-null value always
\* counts as changed
OuterJob(r) ==
    IF r.swr.comp # "active" THEN r
    ELSE LET new == r.swr.fetchKey
         IN  IF new = 0 /\ r.swr.outOld = 0 THEN r
             ELSE LET r1 == [KeyDispose(r, IF new = r.swr.outOld THEN "recompute" ELSE "key")
                               EXCEPT !.swr.outOld = new]
                  IN  IF new # 0
                      THEN KeySetup(r1, new, IF new = r.swr.outOld THEN "sameKey"
                                                                   ELSE "newKey")
                      ELSE r1

\* the job of whenever(() => !state.value, () => Promise.resolve().then(reset))
WheneverNoStateJob(r, id) ==
    IF r.keyScope.id # id THEN r
    ELSE LET new == (r.store[r.keyScope.key] = 0)
         IN  IF new # r.keyScope.aOld
             THEN LET r1 == [r EXCEPT !.keyScope.aOld = new]
                  IN  IF new
                      THEN [r1 EXCEPT !.sq = Append(@, [t |-> "reset", a |-> r.keyScope.key])]
                      ELSE r1
             ELSE r

\* the job of the watcher of the inner useSourceScope; a non-null state is
\* wrapped in a new { some } object, so it always counts as changed
InnerJob(r, id) ==
    IF r.keyScope.id # id THEN r
    ELSE LET v == r.store[r.keyScope.key]
         IN  IF v = 0 /\ r.keyScope.bOld = 0 THEN r
             ELSE LET r1 == [ResDispose(r, "state") EXCEPT !.keyScope.bOld = v]
                  IN  IF v # 0 THEN ResSetup(r1, v, "state") ELSE r1

\* a queued job of a stopped watcher does nothing
SwrRunJob(r, job) ==
    CASE job.j = "OUT" -> OuterJob(r)
      [] job.j = "A" -> WheneverNoStateJob(r, job.id)
      [] job.j = "B" -> InnerJob(r, job.id)
      [] job.j = "C" -> IF r.resScope.id = job.id /\ r.resScope.active
                        THEN TriggerJob(r) ELSE r

\* Vue's flush: the queued jobs run in order; jobs queued meanwhile run in the
\* same flush
RECURSIVE SwrFlushJobs(_)
SwrFlushJobs(r) ==
    IF r.sjobs = <<>>
    THEN [r EXCEPT !.sq = SelectSeq(@, LAMBDA e : e.t # "flush")]
    ELSE SwrFlushJobs(SwrRunJob([r EXCEPT !.sjobs = Tail(@)], Head(r.sjobs)))

\* reset(): store.set(keyStatic, resourceEmptyState()), a new state object
reset(r, k) ==
    StoreSet([r EXCEPT !.states = Append(@, resourceEmptyState)], k, Len(r.states) + 1)

\* fetch.fn(onAbort).then(resolve): a rejection passes on to .catch(reject)
FetchFnThen(r, f) ==
    IF r.fetches[f].fn = "ok"
    THEN IF r.fetches[f].promise = "pending"
         THEN [r EXCEPT !.fetches[f].promise = "data",
                        !.sq = Append(@, [t |-> "cont", a |-> f])]
         ELSE r
    ELSE [r EXCEPT !.sq = Append(@, [t |-> "fnCatch", a |-> f])]

\* .catch(reject)
FetchFnCatch(r, f) ==
    IF r.fetches[f].promise = "pending"
    THEN [r EXCEPT !.fetches[f].promise = "error",
                   !.sq = Append(@, [t |-> "cont", a |-> f])]
    ELSE r

\* variant of the commit of executeFetch: the result is written to the state
\* the store holds for the key at that moment
FetchCommit_ToStore(r, f) ==
    LET k == r.setups[r.fetches[f].setup].key
        s == IF r.store[k] # 0 THEN r.store[k] ELSE r.fetches[f].st
    IN  IF r.fetches[f].promise = "data"
        THEN SetStatePending(
                 [SetStateFresh([r EXCEPT !.states[s].data = f], s, TRUE)
                    EXCEPT !.states[s].error = 0, !.fetches[f].committed = "data"],
                 s, FALSE)
        ELSE SetStatePending(
                 [SetStateFresh([r EXCEPT !.states[s].error = f], s, TRUE)
                    EXCEPT !.fetches[f].committed = "error"],
                 s, FALSE)

\* variant: a success does not clear the error of an earlier failure
FetchCommit_KeepError(r, f) ==
    LET s == r.fetches[f].st
    IN  IF r.fetches[f].promise = "data"
        THEN SetStatePending(
                 [SetStateFresh([r EXCEPT !.states[s].data = f], s, TRUE)
                    EXCEPT !.fetches[f].committed = "data"],
                 s, FALSE)
        ELSE SetStatePending(
                 [SetStateFresh([r EXCEPT !.states[s].error = f], s, TRUE)
                    EXCEPT !.fetches[f].committed = "error"],
                 s, FALSE)

\* variant: the catch block does not mark the state fresh
FetchCommit_ErrorNotFresh(r, f) ==
    LET s == r.fetches[f].st
    IN  IF r.fetches[f].promise = "data"
        THEN SetStatePending(
                 [SetStateFresh([r EXCEPT !.states[s].data = f], s, TRUE)
                    EXCEPT !.states[s].error = 0, !.fetches[f].committed = "data"],
                 s, FALSE)
        ELSE SetStatePending(
                 [r EXCEPT !.states[s].error = f, !.fetches[f].committed = "error"],
                 s, FALSE)

\* executeFetch after its await, on the state object it was given: data,
\* fresh, error, pending on success; error, fresh, pending in the catch block
FetchCommit(r, f) ==
    LET s == r.fetches[f].st
    IN  IF r.fetches[f].promise = "data"
        THEN SetStatePending(
                 [SetStateFresh([r EXCEPT !.states[s].data = f], s, TRUE)
                    EXCEPT !.states[s].error = 0, !.fetches[f].committed = "data"],
                 s, FALSE)
        ELSE SetStatePending(
                 [SetStateFresh([r EXCEPT !.states[s].error = f], s, TRUE)
                    EXCEPT !.fetches[f].committed = "error"],
                 s, FALSE)

\* the continuation of executeFetch: an aborted fetch returns, any other
\* outcome is committed; then the returned promise resolves
FetchContinue(r, f) ==
    LET r1 == IF r.fetches[f].promise = "aborted" THEN r ELSE FetchCommit(r, f)
    IN  [r1 EXCEPT !.sq = Append(@, [t |-> "finally", a |-> f])]

\* .finally(() => { if (promise === currentFetchTask.value?.promise) ... });
\* currentFetchTask is the ref of the set-up that started the fetch
FetchFinally(r, f) ==
    IF r.resScope.id = r.fetches[f].setup /\ r.resScope.currentFetchTask = f
    THEN [r EXCEPT !.resScope.currentFetchTask = 0]
    ELSE r

\* useSwr right after it was called with fetch key k (0: no fetch), the
\* plugins `use` and an empty store: the watcher of the outer useSourceScope
\* ran once (immediate)
SwrFresh(k, use) ==
    LET r == [ swr |-> [comp |-> "active", fetchKey |-> k, outOld |-> k, keyCount |-> 0,
                        entries |-> {}, user |-> {}, userStore |-> FALSE,
                        use |-> use, budget |-> 0],
               keyScope |-> NoKeyScope, resScope |-> NoResScope, resource |-> 0,
               store |-> [q \in SwrKeys |-> 0], states |-> <<>>, fetches |-> <<>>,
               sq |-> <<>>, sjobs |-> <<>>, setups |-> <<>> ]
    IN  IF k # 0 THEN KeySetup(r, k, "init") ELSE r

CommitSwr(r) ==
    /\ swr' = r.swr
    /\ keyScope' = r.keyScope
    /\ resScope' = r.resScope
    /\ resource' = r.resource
    /\ store' = r.store
    /\ states' = r.states
    /\ fetches' = r.fetches
    /\ sq' = r.sq
    /\ sjobs' = r.sjobs
    /\ setups' = r.setups
    /\ swrMode' = swrMode
    /\ UNCHANGED <<taskVars, scopeVars, promiseVars>>

\* no useSwr in the program
SwrIdle ==
    /\ swrMode = "off"
    /\ swr = [comp |-> "none", fetchKey |-> 0, outOld |-> 0, keyCount |-> 0,
              entries |-> {}, user |-> {}, userStore |-> FALSE,
              use |-> <<>>, budget |-> 0]
    /\ keyScope = NoKeyScope
    /\ resScope = NoResScope
    /\ resource = 0
    /\ store = [q \in SwrKeys |-> 0]
    /\ states = <<>>
    /\ fetches = <<>>
    /\ sq = <<>>
    /\ sjobs = <<>>
    /\ setups = <<>>
    /\ swrOps = 0
    /\ swrTick = FALSE

\* ---- initial state --------------------------------------------------------
InitCommon ==
    /\ runs = <<>>
    /\ active = 0
    /\ lastRun = 0
    /\ state = STATE_UNINIT_RAW
    /\ queue = <<>>

Init ==
    /\ InitCommon
    /\ ScopeIdle
    /\ PromiseIdle
    /\ SwrIdle
    /\ \/ mode = "bare" /\ scope = "none"
       \/ mode = "task" /\ scope \in {"none", "active"}
    /\ fnHooks \in 0..MaxHooks
    /\ retry = RetryOff
    /\ stale = StaleOff
    /\ sameData = FALSE

InitRetry ==
    /\ InitCommon
    /\ ScopeIdle
    /\ PromiseIdle
    /\ SwrIdle
    /\ mode = "task"
    /\ scope = "none"
    /\ fnHooks = 0
    /\ \E c \in 1..MaxCount : retry = RetryInit(c)
    /\ stale = StaleOff
    /\ sameData = FALSE

\* a task of useTask with useStaleIfErrorState(task) called right after it
InitStale ==
    /\ InitCommon
    /\ ScopeIdle
    /\ PromiseIdle
    /\ SwrIdle
    /\ mode = "task"
    /\ scope = "active"
    /\ fnHooks = 0
    /\ retry = RetryOff
    /\ stale = [StaleOff EXCEPT !.on = TRUE, !.watching = TRUE]
    /\ sameData = FALSE

\* ---- actions --------------------------------------------------------------
\* what the wrapped function may do when it is invoked: register its hooks,
\* then return a promise or throw
FnInputs == { [nh |-> fnHooks, beh |-> b] : b \in {"returns", "throws"} }

RunsLeft == Len(runs) < (IF retry.on THEN MaxRetryRuns ELSE MaxRuns)

\* with useErrorRetry attached the user starts the task, the retries are left
\* to the timer
UserRunsLeft == retry.on => Len(runs) - retry.ticks < MaxUserRuns

\* the user calls run() on a BareTask
BareTaskRun ==
    /\ mode = "bare"
    /\ RunsLeft
    /\ \E inp \in FnInputs : Commit(BareRun(W, inp))
    /\ UNCHANGED scope

\* the user calls abort() on a BareTask
BareTaskAbort ==
    /\ mode = "bare"
    /\ Commit(BareAbort(W, "abort"))
    /\ UNCHANGED scope

\* the user calls task.run()
TaskRun ==
    /\ mode = "task"
    /\ RunsLeft /\ UserRunsLeft
    /\ \E inp \in FnInputs : Commit(UseTaskRun(W, inp))
    /\ UNCHANGED scope

\* the user calls task.abort()
TaskAbort ==
    /\ mode = "task"
    /\ Commit(BareAbort(W, "abort"))
    /\ UNCHANGED scope

\* the effect scope useTask was called in is stopped: EffectScope.stop() stops
\* the watchers created in the scope, then it calls the hooks of
\* onScopeDispose, here abort
ScopeStop ==
    /\ scope = "active"
    /\ scope' = "stopped"
    /\ Commit(BareAbort([W EXCEPT !.stale.watching = FALSE], "scope"))

\* the promise the wrapped function returned fulfils or rejects
FnSettle ==
    \E r \in 1..Len(runs), k \in {"ok", "err"} :
        /\ runs[r].fn = "pending"
        /\ Commit([W EXCEPT !.runs[r].fn = k,
                            !.runs[r].fnVal = IF sameData THEN 1 ELSE r,
                            !.queue = Append(@, [t |-> "fnThen", r |-> r])])
        /\ UNCHANGED scope

\* the JavaScript engine runs the next microtask
RunMicrotask(w, h) ==
    CASE h.t = "fnThen" -> IF w.mode = "new" THEN NewFnThen(w, h.r) ELSE FnThen(w, h.r)
      [] h.t = "fnCatch" -> IF w.mode = "new" THEN NewFnCatch(w, h.r) ELSE FnCatch(w, h.r)
      [] h.t = "taskThen" -> TaskThen(w, h.r)
      [] h.t = "newThen" -> NewThen(w, h.r)
      [] h.t = "newCatch" -> NewCatch(w, h.r)
      [] h.t = "flush" -> FlushJobs(w)

Microtask ==
    /\ queue # <<>>
    /\ Commit(RunMicrotask([W EXCEPT !.queue = Tail(queue)], Head(queue)))
    /\ UNCHANGED scope

\* the interval of useIntervalFn fires (a macrotask: no microtask is pending)
TimerTick ==
    /\ retry.on /\ retry.timer
    /\ queue = <<>>
    /\ RunsLeft
    /\ \E inp \in FnInputs : Commit(IntervalCallback(W, inp))
    /\ UNCHANGED scope

Next ==
    \/ BareTaskRun
    \/ BareTaskAbort
    \/ TaskRun
    \/ TaskAbort
    \/ ScopeStop
    \/ FnSettle
    \/ Microtask

Spec == Init /\ [][Next]_vars

\* the user calls the reset() that useErrorRetry returned (assigning 0 to the
\* returned `retries` ref is the same assignment); explored, like the ticks of
\* the timer, while the behaviour has runs left to dispatch
RetryReset ==
    /\ mode = "task" /\ retry.on
    /\ RunsLeft
    /\ Commit([resetCounter(W) EXCEPT !.retry.userReset = @ \/ retry.retries # 0])
    /\ UNCHANGED scope

NextRetry ==
    \/ TaskRun
    \/ TaskAbort
    \/ FnSettle
    \/ Microtask
    \/ TimerTick
    \/ RetryReset

SpecRetry == InitRetry /\ [][NextRetry]_vars

NextStale ==
    \/ TaskRun
    \/ TaskAbort
    \/ ScopeStop
    \/ FnSettle
    \/ Microtask

SpecStale == InitStale /\ [][NextStale]_vars

\* ---- useTask of core-new: initial state and actions -------------------------
\* useTask(fn) called in an effect scope
InitNew ==
    /\ InitCommon
    /\ ScopeIdle
    /\ PromiseIdle
    /\ SwrIdle
    /\ mode = "new"
    /\ scope = "active"
    /\ fnHooks \in 0..MaxHooks
    /\ retry = RetryOff
    /\ stale = StaleOff
    /\ sameData = FALSE

\* the user calls task.run() or task.run(false)
NewTaskRun ==
    /\ mode = "new"
    /\ RunsLeft
    /\ \E inp \in FnInputs, abort \in BOOLEAN :
          Commit(NewRun(W, [nh |-> inp.nh, beh |-> inp.beh, abort |-> abort]))
    /\ UNCHANGED scope

\* the user calls task.abort()
NewTaskAbort ==
    /\ mode = "new"
    /\ Commit(doAbort(W, "abort"))
    /\ UNCHANGED scope

\* the effect scope is stopped: onScopeDispose(doAbort)
NewScopeStop ==
    /\ mode = "new"
    /\ scope = "active"
    /\ scope' = "stopped"
    /\ Commit(doAbort(W, "scope"))

NextNew ==
    \/ NewTaskRun
    \/ NewTaskAbort
    \/ NewScopeStop
    \/ FnSettle
    \/ Microtask

SpecNew == InitNew /\ [][NextNew]_vars

\* a task of useTask whose function fulfils or rejects with the same reference
\* at every run
InitSame ==
    /\ InitCommon
    /\ ScopeIdle
    /\ PromiseIdle
    /\ SwrIdle
    /\ mode = "task"
    /\ scope = "none"
    /\ fnHooks = 0
    /\ retry = RetryOff
    /\ stale = StaleOff
    /\ sameData = TRUE

NextSame ==
    \/ TaskRun
    \/ TaskAbort
    \/ FnSettle
    \/ Microtask

SpecSame == InitSame /\ [][NextSame]_vars

\* ---- an AbortHandle used directly ------------------------------------------
\* new AbortHandle(): no hooks
InitHandle ==
    /\ ScopeIdle
    /\ PromiseIdle
    /\ SwrIdle
    /\ mode = "handle"
    /\ scope = "none"
    /\ fnHooks = 0
    /\ runs = <<NoRun>>
    /\ active = 0
    /\ lastRun = 0
    /\ state = STATE_UNINIT_RAW
    /\ queue = <<>>
    /\ retry = RetryOff
    /\ stale = StaleOff
    /\ sameData = FALSE

\* handle.onAbort(fn); the same function may be registered again
HandleOnAbort ==
    /\ mode = "handle"
    /\ Len(runs[1].hooks) < MaxHandleHooks
    /\ \E fn \in HookFns : Commit(onAbort(W, 1, "user", fn, HookThrows[fn]))
    /\ UNCHANGED scope

\* handle.abort()
HandleAbort ==
    /\ mode = "handle"
    /\ runs[1].aborts < MaxAborts
    /\ Commit(AbortHandleAbort(W, 1))
    /\ UNCHANGED scope

NextHandle ==
    \/ HandleOnAbort
    \/ HandleAbort

SpecHandle == InitHandle /\ [][NextHandle]_vars

\* ---- useDeferredScope / useParamScope: initial state and actions ----------
\* no BareTask / Task in the program
TaskIdle ==
    /\ InitCommon
    /\ mode = "bare"
    /\ scope = "none"
    /\ fnHooks = 0
    /\ retry = RetryOff
    /\ stale = StaleOff
    /\ sameData = FALSE

\* the world right after useDeferredScope() was called with main scope m
DeferredFresh(m) ==
    [ main |-> m, scopes |-> <<>>, child |-> 0, ret |-> NullExpose,
      keyRef |-> NullKey, pw |-> [WatcherInitial EXCEPT !.active = FALSE] ]

\* the world right after useParamScope(key, setup) was called with main scope
\* m and the key source holding k: the immediate watcher has run once
ParamFresh(m, k, nh) ==
    ParamWatchJob([DeferredFresh(m) EXCEPT !.keyRef = k, !.pw = WatcherInitial], nh)

ScopeHooks == 1..MaxScopeHooks

StartScope(s) ==
    /\ main = s.main
    /\ scopes = s.scopes
    /\ child = s.child
    /\ scopeSetupReturn = s.ret
    /\ keyRef = s.keyRef
    /\ pwatch = s.pw

InitScope ==
    /\ TaskIdle
    /\ PromiseIdle
    /\ SwrIdle
    /\ keySets = 0
    /\ lastCall = "none"
    /\ smode \in {"deferred", "param"}
    /\ \E m \in {"detached", "active"} :
          \/ /\ smode = "deferred"
             /\ StartScope(DeferredFresh(m))
          \/ /\ smode = "param"
             /\ \E k \in KeySourceValues, nh \in ScopeHooks :
                   StartScope(ParamFresh(m, k, nh))
    /\ constKey = (keyRef.tag = "composed")

\* the user calls setup(fn) on a DeferredScope
DeferredSetup ==
    /\ smode = "deferred"
    /\ Len(scopes) < MaxSetups
    /\ \E nh \in ScopeHooks :
          CommitScope(setup(SW, [nh |-> nh, arg |-> NullKey, spread |-> NoSpread]))
    /\ lastCall' = "setup"
    /\ UNCHANGED <<keySets, constKey>>

\* the user calls dispose() on a DeferredScope
DeferredDispose ==
    /\ smode = "deferred"
    /\ CommitScope(dispose(SW, "dispose"))
    /\ lastCall' = "dispose"
    /\ UNCHANGED <<keySets, constKey>>

\* the scope that was active when useDeferredScope() was called is stopped
MainStop ==
    /\ smode # "off"
    /\ main = "active"
    /\ CommitScope(MainStopCascade(SW))
    /\ lastCall' = "stop"
    /\ UNCHANGED <<keySets, constKey>>

\* the key source of a ParamScope gets another value: the watcher's job is
\* queued for the next flush (flush: 'pre')
KeySet ==
    /\ smode = "param"
    /\ keySets < MaxKeySets
    /\ \E k \in KeySourceValues \ {keyRef} :
          /\ CommitScope([SW EXCEPT !.keyRef = k,
                                    !.pw.jobQueued = @ \/ pwatch.active])
          /\ constKey' = (constKey /\ SameComposedKey(keyRef, k))
    /\ keySets' = keySets + 1
    /\ lastCall' = "keySet"

\* Vue flushes its queue: the watcher's job runs
ParamFlush ==
    /\ smode = "param"
    /\ pwatch.jobQueued
    /\ \E nh \in ScopeHooks : CommitScope(ParamWatchJob(SW, nh))
    /\ lastCall' = "flush"
    /\ UNCHANGED <<keySets, constKey>>

NextScope ==
    \/ DeferredSetup
    \/ DeferredDispose
    \/ MainStop
    \/ KeySet
    \/ ParamFlush

SpecScope == InitScope /\ [][NextScope]_vars

\* ---- usePromise / useErrorRetry: initial state and actions -------------------
InitPromise ==
    /\ TaskIdle
    /\ ScopeIdle
    /\ SwrIdle
    /\ promises = <<>>
    /\ pactive = 0
    /\ pstate = PromiseStateEmpty
    /\ pseen = <<>>
    /\ pqueue = <<>>
    /\ \/ pmode = "promise" /\ pretry = PromiseRetryOff
       \/ pmode = "retry" /\ \E c \in 1..MaxCount : pretry = PromiseRetryInit(c)

PromisesLeft == Len(promises) < MaxPromises

\* with useErrorRetry attached the user starts the action, the retries are
\* left to the timer
UserSetsLeft == pretry.on => Len(promises) - pretry.ticks < MaxUserRuns

\* the user calls set(promise) (run() of useTask)
PromiseSet ==
    /\ PromisesLeft /\ UserSetsLeft
    /\ CommitPromise(PromiseSetOp(PW, FALSE))

\* the user calls clear()
PromiseClear ==
    /\ pactive # 0 \/ pstate # PromiseStateEmpty
    /\ CommitPromise(PromiseClearOp(PW))

\* a promise given to set() fulfils or rejects
PromiseSettle ==
    \E i \in 1..Len(promises), k \in {"fulfilled", "rejected"} :
        /\ promises[i].st = "pending"
        /\ CommitPromise([PW EXCEPT !.promises[i].st = k,
                                    !.pqueue = Append(@, [t |-> "then", p |-> i])])

PromiseRunMicrotask(p, h) ==
    CASE h.t = "then" -> PromiseThen(p, h.p)
      [] h.t = "catch" -> PromiseCatch(p, h.p)
      [] h.t = "flush" -> PromiseFlushJobs(p)

\* the JavaScript engine runs the next microtask
PromiseMicrotask ==
    /\ pqueue # <<>>
    /\ CommitPromise(PromiseRunMicrotask([PW EXCEPT !.pqueue = Tail(pqueue)], Head(pqueue)))

\* the interval of useIntervalFn fires (a macrotask: no microtask is pending)
PromiseTimerTick ==
    /\ pretry.on /\ pretry.timer
    /\ pqueue = <<>>
    /\ PromisesLeft
    /\ CommitPromise(PromiseIntervalCallback(PW))

\* the user calls the reset() that useErrorRetry returned (assigning 0 to the
\* returned `retries` ref is the same assignment)
PromiseRetryReset ==
    /\ pretry.on
    /\ CommitPromise([PromiseResetCounter(PW) EXCEPT
                        !.er.userReset = @ \/ pretry.retries # 0])

NextPromise ==
    \/ PromiseSet
    \/ PromiseClear
    \/ PromiseSettle
    \/ PromiseMicrotask
    \/ PromiseTimerTick
    \/ PromiseRetryReset

SpecPromise == InitPromise /\ [][NextPromise]_vars

\* ---- useSwr: initial state and actions ----------------------------------------
StartSwr(r) ==
    /\ swr = r.swr
    /\ keyScope = r.keyScope
    /\ resScope = r.resScope
    /\ resource = r.resource
    /\ store = r.store
    /\ states = r.states
    /\ fetches = r.fetches
    /\ sq = r.sq
    /\ sjobs = r.sjobs
    /\ setups = r.setups

\* useSwr({ fetch, use: [...] }) called with a keyed fetch and a store of its
\* own; swr.userStore says whether the code of the user gives state objects of
\* its own to store.set (swr.user then holds the state objects that came from
\* the user) or leaves the state objects to the library
InitSwr ==
    /\ TaskIdle
    /\ ScopeIdle
    /\ PromiseIdle
    /\ swrMode = "swr"
    /\ swrOps = 0
    /\ swrTick = FALSE
    /\ \E us \in BOOLEAN :
          StartSwr([SwrFresh(1, DefaultPlugins)
                      EXCEPT !.swr.userStore = us,
                             !.swr.budget = IF us THEN MaxUserStoreOps ELSE MaxSwrOps])

\* the same with the list of plugins as an input and the state objects left
\* to the library; swr.budget is the number of operations of the user the
\* behaviour explores
InitPlugins ==
    /\ TaskIdle
    /\ ScopeIdle
    /\ PromiseIdle
    /\ swrMode = "swr"
    /\ swrOps = 0
    /\ swrTick = FALSE
    /\ \E use \in UseLists :
          StartSwr([SwrFresh(1, use) EXCEPT !.swr.budget = MaxPluginOps])

SwrOpsLeft == swrOps < swr.budget

\* the reactive fetch config is set: to another key, to null, or recomputed
\* to the same key
SwrSetKey ==
    /\ swrMode = "swr" /\ SwrOpsLeft
    /\ swr.comp = "active"
    /\ \E k \in SwrKeys \cup {0} :
          /\ k # 0 \/ swr.fetchKey # 0
          /\ CommitSwr(SwrQueueJob([SR EXCEPT !.swr.fetchKey = k], [j |-> "OUT", id |-> 0]))
    /\ swrOps' = swrOps + 1
    /\ UNCHANGED swrTick

\* the user calls resource.value.refresh(force)
SwrRefresh ==
    /\ swrMode = "swr" /\ SwrOpsLeft
    /\ resource # 0
    /\ \E force \in BOOLEAN : CommitSwr(refresh(SR, force))
    /\ swrOps' = swrOps + 1
    /\ UNCHANGED swrTick

\* the user calls resource.value.reset()
SwrReset ==
    /\ swrMode = "swr" /\ SwrOpsLeft
    /\ resource # 0
    /\ CommitSwr(reset(SR, keyScope.key))
    /\ swrOps' = swrOps + 1
    /\ UNCHANGED swrTick

\* the user calls store.storage.clear()
SwrStoreClear ==
    /\ swrMode = "swr" /\ SwrOpsLeft
    /\ CommitSwr(StorageClear(SR))
    /\ swrOps' = swrOps + 1
    /\ UNCHANGED swrTick

\* the user calls store.storage.delete(key)
SwrStoreDelete ==
    /\ swrMode = "swr" /\ SwrOpsLeft
    /\ \E k \in SwrKeys : CommitSwr(StorageDelete(SR, k))
    /\ swrOps' = swrOps + 1
    /\ UNCHANGED swrTick

\* the user calls store.set(key, null) or store.set(key, a state object): any
\* ResourceState, pending or fresh or holding data or an error as the user
\* wrote it
SwrStoreSet ==
    /\ swrMode = "swr" /\ SwrOpsLeft
    /\ \E k \in SwrKeys :
          \/ CommitSwr(StoreSet(SR, k, 0))
          \/ \E u \in UserStates :
                /\ swr.userStore
                /\ CommitSwr(StoreSet([SR EXCEPT !.states = Append(@, u),
                                              !.swr.user = @ \cup {Len(states) + 1}],
                                      k, Len(states) + 1))
    /\ swrOps' = swrOps + 1
    /\ UNCHANGED swrTick

\* the effect scope useSwr was called in is stopped
SwrDispose ==
    /\ swrMode = "swr" /\ SwrOpsLeft
    /\ swr.comp = "active"
    /\ CommitSwr([KeyDispose(SR, "scope") EXCEPT !.swr.comp = "stopped"])
    /\ swrOps' = swrOps + 1
    /\ UNCHANGED swrTick

\* the promise returned by fetch.fn fulfils or rejects: at any moment after
\* fetch.fn was called, also while microtasks are queued (fetch.fn may return
\* a promise that is settled already)
SwrFetchSettle ==
    /\ swrMode = "swr"
    /\ \E f \in 1..Len(fetches), k \in {"ok", "err"} :
          /\ fetches[f].fn = "pending"
          /\ CommitSwr([SR EXCEPT !.fetches[f].fn = k,
                                  !.sq = Append(@, [t |-> "fnThen", a |-> f])])
    /\ UNCHANGED <<swrOps, swrTick>>

\* the JavaScript engine runs the next microtask
SwrRunMicrotask(r, h) ==
    CASE h.t = "reset" -> reset(r, h.a)
      [] h.t = "flush" -> SwrFlushJobs(r)
      [] h.t = "fnThen" -> FetchFnThen(r, h.a)
      [] h.t = "fnCatch" -> FetchFnCatch(r, h.a)
      [] h.t = "cont" -> FetchContinue(r, h.a)
      [] h.t = "finally" -> FetchFinally(r, h.a)

SwrMicrotask ==
    /\ swrMode = "swr"
    /\ sq # <<>>
    /\ CommitSwr(SwrRunMicrotask([SR EXCEPT !.sq = Tail(sq)], Head(sq)))
    /\ swrTick' = ~swrTick
    /\ UNCHANGED swrOps

NextSwr ==
    \/ SwrSetKey
    \/ SwrRefresh
    \/ SwrReset
    \/ SwrStoreClear
    \/ SwrStoreDelete
    \/ SwrStoreSet
    \/ SwrDispose
    \/ SwrFetchSettle
    \/ SwrMicrotask

SpecSwr == InitSwr /\ [][NextSwr]_vars

SpecPlugins == InitPlugins /\ [][NextSwr]_vars

\* the event loop runs a microtask whenever one is queued; exactly the steps
\* of SwrMicrotask flip swrTick
SwrTickStep == sq # <<>> /\ swrTick' = ~swrTick

SpecSwrLive == SpecSwr /\ WF_swrTick(SwrTickStep)

TypeOK ==
    /\ mode \in {"bare", "task", "handle", "new"}
    /\ active \in 0..Len(runs)
    /\ lastRun \in 0..Len(runs)
    /\ state.kind \in {"uninit", "pending", "ok", "err", "aborted"}
    /\ retry.jobQueued = (\E i \in 1..Len(queue) : queue[i].t = "flush")

\* ---- properties -----------------------------------------------------------
RunIds == 1..Len(runs)

\* every hook of run r's AbortHandle has been invoked exactly once
HooksOnce(r) == \A i \in 1..Len(runs[r].hooks) : runs[r].hooks[i].calls = 1

\* every user-registered hook of run r
UserHooks(r) == {i \in 1..Len(runs[r].hooks) : runs[r].hooks[i].k = "user"}

\* no run promise is unsettled and no callback is queued
AllSettled == queue = <<>> /\ \A r \in RunIds : runs[r].promise.kind # "pending"

\* the outcome a run ended with, as a task state; a failure of the wrapped
\* function counts as err with the thrown value
Outcome(r) ==
    IF runs[r].fn = "thrown" THEN [kind |-> "err", val |-> runs[r].fnVal]
    ELSE runs[r].promise

\* C1: a run superseded by a later run() before it settled never writes its
\* outcome to task.state, and once all runs have settled task.state equals the
\* outcome of the most recently dispatched run.
C1_LatestRunOnly ==
    mode = "task" =>
        /\ \A r \in RunIds : runs[r].superseded => runs[r].wrote = "none"
        /\ (AllSettled /\ lastRun # 0) => state = Outcome(lastRun)

\* C2: whenever run() of a Task is called, from whatever state, task.state is
\* pending when run() returns, it was already pending when the wrapped function
\* was invoked, and no queued callback ran in between.
C2_PendingOnRun ==
    [][(mode = "task" /\ Len(runs') > Len(runs)) =>
          /\ state'.kind = "pending"
          /\ runs'[Len(runs')].sawKind = "pending"
          /\ SubSeq(queue', 1, Len(queue)) = queue]_vars

C2_Witness ==
    /\ mode = "task"
    /\ \E r \in RunIds : runs[r].fromKind = "aborted" /\ runs[r].sawKind = "pending"
    /\ \E r \in RunIds : runs[r].fromKind = "uninit" /\ runs[r].sawKind = "pending"

\* C3: a BareTask has at most one run in flight; when the wrapped function of a
\* new run is invoked no other run is unsettled; a run aborted by run() while
\* it was pending resolves to aborted and each of its hooks ran exactly once.
C3_AtMostOneInFlight ==
    /\ Cardinality({r \in RunIds : runs[r].promise.kind = "pending"}) <= 1
    /\ \A r \in RunIds : runs[r].inflight = 0
    /\ \A r \in RunIds :
          (runs[r].abortBy = "run" /\ runs[r].abortPromise = "pending") =>
              (runs[r].promise = STATE_ABORTED /\ HooksOnce(r))

C3_Witness ==
    /\ mode = "bare"
    /\ \E r \in RunIds :
          /\ runs[r].abortBy = "run" /\ runs[r].abortPromise = "pending"
          /\ UserHooks(r) # {}
          /\ r < Len(runs)

\* C4: a run aborted before the wrapped function's promise settled resolves to
\* aborted, and the function's later settlement changes neither the run's
\* promise nor what the run wrote to task.state.
C4_AbortWins ==
    \A r \in RunIds :
        runs[r].abortFn = "pending" =>
            /\ runs[r].promise = STATE_ABORTED
            /\ runs[r].ret \in {PromisePending, STATE_ABORTED}
            /\ runs[r].wrote \in {"none", "aborted"}

C4_Witness ==
    \E r \in RunIds :
        /\ runs[r].abortFn = "pending"
        /\ runs[r].abortBy = "abort"
        /\ runs[r].fn \in {"ok", "err"}
        /\ queue = <<>>

\* C5: no promise returned by BareTask.run() or Task.run() ever rejects, and a
\* wrapped function that throws leaves the task in the err state.
C5_NeverRejects ==
    \A r \in RunIds :
        /\ runs[r].promise.kind # "rejected"
        /\ runs[r].ret.kind # "rejected"
        /\ (runs[r].fn = "thrown" /\ lastRun = r /\ queue = <<>>) => state.kind = "err"

\* C6: abort() called when the last run has already settled ok or err invokes
\* no abort hook.
C6_AbortNoOp ==
    \A r \in RunIds :
        (runs[r].abortBy = "abort" /\ runs[r].abortPromise \in {"ok", "err"}) =>
            \A i \in UserHooks(r) : runs[r].hooks[i].calls = 0

\* C7 as stated: after abort() was called while task.state was pending and no
\* run() followed, once the run's promise has resolved task.state is aborted
\* and every hook ran exactly once.
C7_Original ==
    \A r \in RunIds :
        ( /\ mode = "task"
          /\ runs[r].abortBy = "abort" /\ runs[r].abortState = "pending"
          /\ lastRun = r
          /\ runs[r].ret.kind \in {"ok", "err", "aborted"} ) =>
            (state = STATE_ABORTED_RAW /\ HooksOnce(r))

\* C7 amended: after abort() was called before the wrapped function's promise
\* settled and no run() followed, once the run's promise has resolved
\* task.state is aborted and every hook ran exactly once.
C7_AbortedState ==
    \A r \in RunIds :
        ( /\ mode = "task"
          /\ runs[r].abortBy = "abort" /\ runs[r].abortFn = "pending"
          /\ lastRun = r
          /\ runs[r].ret.kind # "pending" ) =>
            (state = STATE_ABORTED_RAW /\ HooksOnce(r))

C7_Witness ==
    \E r \in RunIds :
        /\ mode = "task"
        /\ runs[r].abortBy = "abort" /\ runs[r].abortFn = "pending"
        /\ lastRun = r
        /\ runs[r].ret.kind # "pending"
        /\ UserHooks(r) # {}

\* C8: after the scope was torn down while the task was pending, every hook of
\* the run ran exactly once and the task does not stay pending.
C8_ScopeAbort ==
    \A r \in RunIds :
        (runs[r].abortBy = "scope" /\ runs[r].abortState = "pending") =>
            /\ HooksOnce(r)
            /\ (queue = <<>> /\ lastRun = r) => state.kind # "pending"

\* C9: while no run succeeds (and the user does not reset the counter), the
\* timer of useErrorRetry invokes the retry at most `count` times, and once it
\* did so `count` times the timer is stopped.
C9_BoundedRetries ==
    (retry.on /\ ~retry.userReset /\ \A r \in RunIds : runs[r].fn # "ok") =>
        /\ retry.ticks <= retry.count
        /\ (retry.ticks = retry.count /\ queue = <<>>) => ~retry.timer

\* C10: once a run has settled with a non-error terminal state (ok or
\* aborted) and the microtasks have run, the retry counter is 0 and the timer
\* is stopped; stated for the behaviours in which the timer has ticked fewer
\* than `count` times and the user has not called reset(), so that neither
\* the end of the budget (C9) nor a reset by the user plays a part.
C10_NonErrorResets ==
    ( /\ retry.on /\ ~retry.userReset /\ retry.ticks < retry.count
      /\ state.kind \in {"ok", "aborted"} /\ queue = <<>> ) =>
        (retry.retries = 0 /\ ~retry.timer)

\* the half of C10 the code keeps: once a run has settled ok and the watcher
\* has been flushed (which happens before the timer can fire), the retry
\* counter is 0 and the timer is stopped, whether or not reset() was called
\* meanwhile
ResetOnOk ==
    (retry.on /\ retry.lastResult = "ok" /\ ~retry.jobQueued) =>
        (retry.retries = 0 /\ ~retry.timer)

\* a retry succeeded after the timer had ticked, with a counter above 0
\* before it
RetrySucceeded ==
    /\ retry.on /\ retry.lastResult = "ok" /\ ~retry.jobQueued
    /\ state.kind = "ok"
    /\ retry.count = 2 /\ retry.ticks >= 1

\* ---- properties of useDeferredScope / useParamScope -------------------------
ScopeIds == 1..Len(scopes)

\* every teardown hook registered in child scope i has run exactly once
TornDown(i) == ~scopes[i].active /\ \A h \in DOMAIN scopes[i].calls : scopes[i].calls[h] = 1

\* no teardown hook registered in child scope i has run
Untouched(i) == scopes[i].active /\ \A h \in DOMAIN scopes[i].calls : scopes[i].calls[h] = 0

\* C12: no teardown hook of a child scope ever runs twice, and every hook of a
\* scope that was superseded or disposed (it is no longer the owned scope) or
\* whose parent scope was stopped has run exactly once; a scope that is still
\* owned under a live parent has run none of its hooks.
C12_TeardownOnce ==
    smode # "off" =>
        \A i \in ScopeIds :
            /\ \A h \in DOMAIN scopes[i].calls : scopes[i].calls[h] <= 1
            /\ (i # child \/ main = "stopped") => TornDown(i)
            /\ (i = child /\ main # "stopped") => Untouched(i)

C12_Witness ==
    /\ smode = "deferred"
    /\ \E i, j, k \in ScopeIds :
          /\ scopes[i].by = "setup" /\ scopes[j].by = "dispose" /\ scopes[k].by = "main"
          /\ TornDown(i) /\ TornDown(j) /\ TornDown(k)
    /\ lastCall = "dispose"

\* C13: a setup(fn) step of a DeferredScope that finds a live child scope
\* tears that scope down before the new fn runs (when fn runs no scope is live
\* and no hook is outstanding); afterwards the exposed value is {expose: value
\* returned by the new fn} and the new scope is the only live one.
C13_SetupSupersedes ==
    [][(smode = "deferred" /\ lastCall' = "setup" /\ child # 0 /\ scopes[child].active) =>
          LET n == Len(scopes')
          IN  /\ n = Len(scopes) + 1
              /\ ~scopes'[child].active
              /\ \A h \in DOMAIN scopes'[child].calls : scopes'[child].calls[h] = 1
              /\ scopes'[n].liveAtFn = 0 /\ scopes'[n].pendingAtFn = 0
              /\ scopeSetupReturn' = [kind |-> "some", expose |-> n, spread |-> NoSpread]
              /\ child' = n
              /\ {i \in 1..n : scopes'[i].active} = {n}]_vars

C13_Witness ==
    /\ smode = "deferred"
    /\ lastCall = "setup"
    /\ Len(scopes) >= 2
    /\ scopes[Len(scopes) - 1].by = "setup"
    /\ child = Len(scopes)

\* C14: a dispose() step of a DeferredScope that finds a child scope leaves
\* every teardown hook of that scope run and the exposed value null; one that
\* finds no child scope changes nothing.
C14_Dispose ==
    [][(smode = "deferred" /\ lastCall' = "dispose") =>
          IF child # 0
          THEN /\ \A h \in DOMAIN scopes'[child].calls : scopes'[child].calls[h] = 1
               /\ ~scopes'[child].active
               /\ scopeSetupReturn' = NullExpose
               /\ child' = 0
          ELSE UNCHANGED <<main, scopes, child, scopeSetupReturn>>]_vars

C14_Witness ==
    /\ smode = "deferred"
    /\ lastCall = "dispose"
    /\ \E i \in ScopeIds : scopes[i].by = "dispose" /\ TornDown(i)
    /\ scopeSetupReturn = NullExpose

\* C15: once the scope that was active when the DeferredScope was constructed
\* has been stopped, every child scope is torn down, the current one included.
C15_ParentCascade ==
    (smode # "off" /\ main = "stopped") => \A i \in ScopeIds : TornDown(i)

C15_Witness ==
    /\ smode = "deferred"
    /\ main = "stopped"
    /\ child # 0 /\ scopes[child].by = "main" /\ TornDown(child)

\* C16: while the key source of a ParamScope has only ever held composed keys
\* with one and the same key (whatever the payloads) and the parent scope is
\* live, setup has been invoked exactly once and no teardown hook has run.
C16_PayloadOnly ==
    (smode = "param" /\ constKey /\ main # "stopped") =>
        /\ Len(scopes) = 1
        /\ Untouched(1)

\* C17: a flush in which the watcher sees the resolved key change from a
\* truthy key x to a different key y tears the scope of x down and then
\* invokes setup for y (no scope is live when it runs); and a flush invokes
\* setup only if the resolved key it sees differs from the one seen before.
C17_KeyChange ==
    [][(smode = "param" /\ lastCall' = "flush" /\ pwatch.active) =>
          LET x == pwatch.old
              y == ResolvedKey(keyRef)
              n == Len(scopes')
          IN  /\ (~JsFalsy(x) /\ y # x /\ y # NullKey) =>
                    /\ n = Len(scopes) + 1
                    /\ \A i \in ScopeIds : ~scopes'[i].active
                    /\ scopes'[n].liveAtFn = 0 /\ scopes'[n].pendingAtFn = 0
                    /\ getKeyOnly(scopes'[n].arg) = y
              /\ (n > Len(scopes)) => y # x]_vars

\* C18: whenever the watcher is up to date and the key source holds a string,
\* a number or a symbol, a live scope exists, setup was called with that key
\* and the exposed value carries that key.
C18_PrimitiveKey ==
    (smode = "param" /\ pwatch.active /\ ~pwatch.jobQueued /\ keyRef \in PlainKeys) =>
        /\ child # 0
        /\ scopes[child].active
        /\ getKeyOnly(scopes[child].arg) = keyRef
        /\ ParamRef(SW).kind = "some"
        /\ ParamRef(SW).spread.key = keyRef

\* C19: whenever the watcher is up to date and the key source holds false,
\* null or undefined, no scope is owned, every scope created so far is torn
\* down and the returned ref is null; and a flush that sees such a key does
\* not invoke setup.
C19_FalsyKey ==
    /\ []((smode = "param" /\ pwatch.active /\ ~pwatch.jobQueued /\ keyRef \in FalsyKeys) =>
            /\ child = 0
            /\ \A i \in ScopeIds : TornDown(i)
            /\ ParamRef(SW) = NullExpose)
    /\ [][(smode = "param" /\ lastCall' = "flush" /\ keyRef \in FalsyKeys) =>
            Len(scopes') = Len(scopes)]_vars

C19_Witness ==
    /\ smode = "param"
    /\ pwatch.active /\ ~pwatch.jobQueued
    /\ keyRef \in FalsyKeys
    /\ lastCall = "flush"
    /\ \E i \in ScopeIds : scopes[i].by = "dispose" /\ TornDown(i)

\* ---- properties of usePromise / useErrorRetry (PromiseStateAtomic) -----------
PromiseIds == 1..Len(promises)

\* C11: with useErrorRetry(state, retry, {count}) attached to a state that is
\* rejected again after every retry (no promise ever fulfils, nobody calls
\* clear() or reset()), the timer invokes the retry callback at most `count`
\* times, and once it did so `count` times and the last retry was rejected the
\* timer is stopped.
C11_RetriesBounded ==
    ( /\ pmode = "retry"
      /\ ~pretry.userReset
      /\ \A i \in PromiseIds : promises[i].st # "fulfilled"
      /\ pactive = Len(promises) ) =>
        /\ pretry.ticks <= pretry.count
        /\ (pretry.ticks = pretry.count /\ pqueue = <<>>) => ~pretry.timer

\* C20: a promise superseded while it was pending never writes its result to
\* the state; its rejection reaches the .catch reaction and ends there: once
\* the microtasks have run, the chain of a settled superseded promise is
\* fulfilled, so no rejection is left unhandled; while the active promise is
\* pending the state is the pending state.
C20_SupersededIgnored ==
    pmode # "off" =>
        /\ \A i \in PromiseIds :
              promises[i].superseded =>
                  /\ ~promises[i].wrote
                  /\ promises[i].chain # "rejected"
                  /\ (promises[i].st # "pending" /\ pqueue = <<>>) =>
                        promises[i].chain = "fulfilled"
                  /\ promises[i].chain = "fulfilled" =>
                        promises[i].then = promises[i].st
        /\ (pactive # 0 /\ promises[pactive].st = "pending") =>
              pstate = PromiseStatePending

C20_Witness ==
    /\ pmode = "promise"
    /\ \E i, j \in PromiseIds :
          /\ i < j
          /\ promises[i].superseded /\ promises[i].st = "rejected"
          /\ promises[i].then = "rejected" /\ promises[i].chain = "fulfilled"
          /\ promises[j].superseded /\ promises[j].st = "fulfilled"
          /\ promises[j].then = "fulfilled" /\ promises[j].chain = "fulfilled"
    /\ pactive = Len(promises) /\ promises[pactive].st = "pending"
    /\ pqueue = <<>>

\* C21: after clear() the state is the empty state, whatever it was before,
\* and it stays empty until the next set(): a promise set before clear()
\* changes nothing when it fulfils or rejects later.
C21_ClearEmpties ==
    pmode # "off" => (pactive = 0 => pstate = PromiseStateEmpty)

C21_Witness ==
    /\ pmode = "promise"
    /\ pactive = 0
    /\ pqueue = <<>>
    /\ \E i, j \in PromiseIds :
          /\ promises[i].wrote /\ promises[i].st = "fulfilled"
          /\ promises[j].superseded /\ promises[j].st = "rejected"
          /\ promises[j].then = "rejected" /\ promises[j].chain = "fulfilled"

\* C22: every state a reader is shown, a synchronous one in the middle of a
\* handler included, is exactly one of empty, pending, fulfilled, rejected.
Exclusive(s) ==
    \/ s = PromiseStateEmpty
    \/ s = PromiseStatePending
    \/ ~s.pending /\ s.fulfilled # 0 /\ s.rejected = 0
    \/ ~s.pending /\ s.fulfilled = 0 /\ s.rejected # 0

C22_Exclusive ==
    pmode # "off" =>
        /\ Exclusive(pstate)
        /\ \A k \in 1..Len(pseen) : Exclusive(pseen[k])

\* C23: in every state the state of useStaleIfErrorState mirrors task.state:
\* pending gives pending and not fresh; ok gives the new result, no error,
\* fresh and not pending; err gives the new error, not pending, and the
\* result of the last ok state.
C23_StaleMirror ==
    (stale.on /\ stale.watching) =>
        /\ state.kind = "pending" => stale.pending /\ ~stale.fresh
        /\ state.kind = "ok" =>
              /\ stale.result = state.val /\ stale.result # 0
              /\ stale.error = 0 /\ stale.fresh /\ ~stale.pending
        /\ state.kind = "err" =>
              /\ stale.error = state.val /\ stale.error # 0
              /\ ~stale.pending
              /\ stale.result = stale.lastOk

C23_Witness ==
    /\ stale.on /\ stale.watching
    /\ state.kind = "err"
    /\ stale.result # 0
    /\ stale.error > stale.result
    /\ ~stale.fresh

FetchIds == 1..Len(fetches)

\* some fetch was aborted after the promise executeFetch awaits had settled
\* and before executeFetch had finished: the abort cannot stop its commit
LateAbort ==
    \E f \in FetchIds :
        fetches[f].abortBy # "none" /\ fetches[f].abortAt \in {"data", "error"}

SetupIds == 1..Len(setups)

\* a resource is published and this is its state
Selected == resource # 0

ResState == states[resScope.st]

\* C24: a fetch aborted by refresh(true) before executeFetch had finished had
\* its abort hook invoked exactly once and its result is never committed.
C24_ForcedRefresh ==
    \A f \in FetchIds :
        (fetches[f].abortBy = "force" /\ fetches[f].abortAt # "done") =>
            /\ fetches[f].hookCalls = 1
            /\ fetches[f].committed = "none"

\* the state objects a behaviour can create: the first one and one per
\* operation of the user
StateIds == 1..(MaxSwrOps + 1)

\* C25: whenever the state object of the selected resource is neither pending
\* nor fresh, it is pending some time later (or the resource is no longer
\* selected, or it shows another state object).
C25_EventuallyFetched ==
    \A s \in StateIds :
        (Selected /\ resScope.st = s /\ ~ResState.pending /\ ~ResState.fresh)
            ~> (~Selected \/ resScope.st # s \/ ResState.pending)

\* C26: a state object made by reset() for which no fetch was started is the
\* empty state; data and error of a state object come from fetches started
\* for that object (or from the user, in an object the user stored) and it is
\* pending only while such a fetch is in flight (or as the user stored it,
\* while no fetch was started for it), so a fetch started before reset() or
\* before the entry was cleared never mutates the new state; the fetch
\* aborted with the replaced state had its hook invoked once; once the
\* microtasks have run, the published resource shows the state the store
\* holds, no fetch is in flight but the current one, and a state that is not
\* fresh is pending.
C26_ResetState ==
    swrMode = "swr" =>
        /\ \A f \in FetchIds :
              (fetches[f].abortBy = "state" /\ fetches[f].hook) => fetches[f].hookCalls = 1
        /\ \A s \in 1..Len(states) :
              /\ (s \notin swr.user /\ \A f \in FetchIds : fetches[f].st # s) =>
                    states[s] = resourceEmptyState
              /\ (states[s].data < 0 \/ states[s].error < 0) => s \in swr.user
              /\ states[s].data > 0 => fetches[states[s].data].st = s
              /\ states[s].error > 0 => fetches[states[s].error].st = s
              /\ states[s].pending =>
                    \/ \E f \in FetchIds :
                          /\ fetches[f].st = s
                          /\ fetches[f].committed = "none"
                          /\ fetches[f].abortBy = "none"
                    \/ s \in swr.user /\ \A f \in FetchIds : fetches[f].st # s
        /\ sq = <<>> =>
              /\ \A f \in FetchIds :
                    fetches[f].promise = "pending" => resScope.currentFetchTask = f
              /\ Selected =>
                    /\ store[keyScope.key] = resScope.st
                    /\ ResState.fresh \/ ResState.pending

C26_Witness ==
    /\ swrMode = "swr"
    /\ sq = <<>>
    /\ Selected
    /\ resScope.st > 1
    /\ ResState = [resourceEmptyState EXCEPT !.pending = TRUE]
    /\ \E f \in FetchIds :
          /\ fetches[f].st < resScope.st
          /\ fetches[f].abortBy = "state"
          /\ fetches[f].hookCalls = 1
          /\ fetches[f].fn = "ok"

\* C27: a fetch aborted by a key change or by the disposal of the composable's
\* scope before executeFetch had finished had its abort hook invoked and its
\* result is never committed.
C27_KeyChangeAborts ==
    \A f \in FetchIds :
        ( /\ fetches[f].abortBy \in {"key", "scope"}
          /\ fetches[f].abortAt # "done"
          /\ fetches[f].hook ) =>
            /\ fetches[f].hookCalls = 1
            /\ fetches[f].committed = "none"

\* C28: a resource set up for a key whose stored state is fresh starts no
\* fetch, and a resource set up because the keyed fetch was recomputed to the
\* same key starts no fetch for a state that was being fetched already.
C28_NoRefetch ==
    \A u \in SetupIds :
        /\ setups[u].fresh => ~setups[u].fetched
        /\ (setups[u].cause = "sameKey" /\ setups[u].fetched) =>
              \A f \in FetchIds : fetches[f].st = setups[u].st => fetches[f].setup >= u

\* C29: a fetch that was in flight when refresh() was called without force
\* (fetches[f].soft) is aborted neither by that call nor by the fetch trigger
\* the call sets off before executeFetch has finished; while nothing else
\* aborted it, its hook was not invoked and the resource started no second
\* fetch before it was committed.
C29_SoftRefresh ==
    \A f \in FetchIds :
        fetches[f].soft =>
            /\ fetches[f].abortBy \in {"soft", "trigger"} => fetches[f].abortAt = "done"
            /\ fetches[f].abortBy = "none" =>
                  /\ fetches[f].hookCalls = 0
                  /\ \A g \in FetchIds :
                        (g > f /\ fetches[g].setup = fetches[f].setup) =>
                            fetches[f].committed # "none"

\* C29 holds in every behaviour in which no fetch is aborted after its awaited
\* promise has settled
C29_ButLateAbort == LateAbort \/ C29_SoftRefresh

\* C30: for every list of plugins, in every set-up of the resource (one per
\* lifetime of the resource, a new one after a key change) each plugin was
\* called exactly once, the plugins listed after one that throws included:
\* every throw was caught and logged and none left the loop.
C30_PluginsOnce ==
    \A u \in SetupIds :
        /\ DOMAIN setups[u].calls = DOMAIN swr.use
        /\ \A p \in DOMAIN swr.use : setups[u].calls[p] = 1
        /\ ~setups[u].exc
        /\ setups[u].logged = Cardinality({p \in DOMAIN swr.use : swr.use[p] = "throws"})

\* two set-ups for different keys with a list in which two plugins throw and
\* a plugin listed after them was called in both set-ups
C30_Witness ==
    \E u, v \in SetupIds :
        /\ setups[u].key # setups[v].key
        /\ \E p, q, l \in DOMAIN swr.use :
              /\ p < q /\ q < l
              /\ swr.use[p] = "throws" /\ swr.use[q] = "throws"
              /\ swr.use[l] = "refreshOnCapture"
              /\ setups[u].calls[l] = 1 /\ setups[v].calls[l] = 1
              /\ setups[u].logged = 2 /\ setups[v].logged = 2

\* a set-up in which pluginRefreshOnCapture, listed after a plugin that throws
\* and before one that returns, found data and called refresh(), and the
\* plugin after it was called
PluginRefreshed ==
    \E u \in SetupIds :
        \E p, q, l \in DOMAIN swr.use :
            /\ p < q /\ q < l
            /\ swr.use[p] = "throws" /\ swr.use[q] = "refreshOnCapture"
            /\ setups[u].refreshed = 1 /\ setups[u].calls[l] = 1

\* ---- AbortHandle ----------------------------------------------------------
\* the hooks registered before the last abort() of the handle
HooksBefore(r) == {i \in 1..Len(runs[r].hooks) : runs[r].hooks[i].at < runs[r].aborts}

\* C31: abort() invokes every hook registered through onAbort exactly once, in
\* registration order, a function registered twice being called twice; a
\* throwing hook is caught, the hooks after it are still called and no
\* exception leaves abort().
C31_AbortAllHooks ==
    mode = "handle" =>
        LET h == runs[1]
        IN  /\ ~h.exc
            /\ \A i \in 1..Len(h.hooks) : h.hooks[i].calls = h.aborts - h.hooks[i].at
            /\ h.aborts > 0 =>
                  h.log = [i \in 1..Cardinality(HooksBefore(1)) |-> i]

C31_Witness ==
    /\ mode = "handle"
    /\ runs[1].aborts = 1
    /\ runs[1].log = <<1, 2, 3>>
    /\ runs[1].hooks[1].throws /\ runs[1].hooks[2].fn = runs[1].hooks[1].fn
    /\ ~runs[1].hooks[3].throws /\ runs[1].hooks[3].calls = 1
    /\ runs[1].logged = 2

\* ---- notifications of task.state --------------------------------------------
\* C32: run() on a task that is pending assigns nothing to task.state, so a
\* synchronous watcher on it is not called; run() on a task that is not pending
\* calls it once.
C32_NoNoteWhilePending ==
    mode = "task" =>
        \A r \in RunIds :
            runs[r].runNotes = IF runs[r].fromKind = "pending" THEN 0 ELSE 1

C32_Witness ==
    /\ mode = "task"
    /\ Len(runs) = 2
    /\ runs[1].fromKind = "uninit" /\ runs[1].runNotes = 1
    /\ runs[2].fromKind = "pending" /\ runs[2].runNotes = 0
    /\ state.kind = "pending"

\* C33: a run started in state ok{data: X} that resolves with the same
\* reference X triggers no notification on task.state.
C33_SameDataNoNote ==
    (mode = "task" /\ sameData) =>
        \A r \in RunIds :
            (runs[r].fromKind = "ok" /\ runs[r].wrote = "ok") =>
                runs[r].runNotes + runs[r].thenNotes = 0

\* ---- the timer of useErrorRetry ---------------------------------------------
\* C34: once the watcher of useErrorRetry has run, the retry timer is running
\* only if the last settled result is err and fewer than `count` retries have
\* been made since the last success (here: no run has succeeded, so every tick
\* counts); every tick increments the counter before it re-runs the task.
C34_TimerOnlyWhileRetrying ==
    ( /\ retry.on /\ retry.timer /\ ~retry.jobQueued
      /\ ~retry.userReset
      /\ \A r \in RunIds : runs[r].fn # "ok" ) =>
        /\ retry.lastResult = "err"
        /\ retry.ticks < retry.count

\* ---- freshness and pending of a ResourceState -------------------------------
\* the fetches whose outcome executeFetch wrote to state object s
Committed(s) == {f \in FetchIds : fetches[f].st = s /\ fetches[f].committed # "none"}

Latest(S) == CHOOSE m \in S : \A f \in S : f <= m

\* C35 as stated: fresh is not true after a fetch that ended in an error (in
\* a state object the library created).
C35_Original ==
    \A s \in 1..Len(states) :
        (states[s].fresh /\ s \notin swr.user) => states[s].error = 0

\* C35 amended: fresh is true only when the state holds the outcome of the
\* latest fetch written to it, a success or a failure: after a success data is
\* that fetch's result and error is null, after a failure error is that fetch's
\* error (and data is still the result of the latest success, if any).  A
\* state object the user stored is as fresh as the user made it until a fetch
\* writes to it.
C35_FreshAfterSettle ==
    \A s \in 1..Len(states) :
        /\ states[s].fresh =>
              IF Committed(s) = {}
              THEN s \in swr.user
              ELSE LET m == Latest(Committed(s))
                   IN  IF fetches[m].committed = "error"
                       THEN states[s].error = m
                       ELSE states[s].data = m /\ states[s].error = 0
        /\ states[s].data > 0 =>
              states[s].data = Latest({f \in Committed(s) : fetches[f].committed = "data"})

C35_Witness ==
    /\ Selected /\ sq = <<>>
    /\ ResState.fresh /\ ~ResState.pending
    /\ ResState.error # 0 /\ ResState.data > 0
    /\ ResState.error > ResState.data

\* C39: state.pending (of a state object the library created) is true exactly
\* when a fetch started for that state object is the current fetch task of
\* its set-up and has neither been aborted nor written its outcome yet.
C39_PendingIffFetching ==
    swrMode = "swr" =>
        \A s \in (1..Len(states)) \ swr.user :
            states[s].pending <=>
                /\ resScope.active /\ resScope.st = s
                /\ resScope.currentFetchTask # 0
                /\ LET f == fetches[resScope.currentFetchTask]
                   IN  f.st = s /\ f.abortBy = "none" /\ f.committed = "none"

C39_Witness ==
    /\ Selected /\ sq = <<>>
    /\ ~ResState.pending /\ ResState.fresh
    /\ resScope.currentFetchTask = 0
    /\ \E f \in FetchIds : fetches[f].st = resScope.st /\ fetches[f].abortBy = "force"
    /\ \E f \in FetchIds : fetches[f].st = resScope.st /\ fetches[f].committed = "data"
                           /\ fetches[f].abortBy = "none"

\* C40: a fetch is started by the set-up of a resource or after refresh(),
\* reset(), a store reset or a key change, never by the failure of the fetch
\* before it: with k such operations at most k + 1 fetches have been started,
\* however many of them failed.
C40_NoRefetchLoop ==
    swrMode = "swr" => Len(fetches) <= swrOps + 1

C40_Witness ==
    /\ Selected /\ sq = <<>>
    /\ swrOps = 1
    /\ Len(fetches) = 2
    /\ \A f \in FetchIds : fetches[f].committed = "error" /\ fetches[f].fn = "err"
    /\ ResState.error = 2 /\ ~ResState.pending

\* ---- useTask of core-new ------------------------------------------------------
\* C36: in the core-new useTask, once abort() was called on a pending task and
\* every callback of the aborted run has run, task.state is uninit again.
C36_AbortCollapses ==
    ( /\ mode = "new"
      /\ Len(runs) > 0
      /\ runs[Len(runs)].abortBy = "abort"
      /\ runs[Len(runs)].abortState = "pending"
      /\ queue = <<>> ) =>
        state.kind = "uninit"

\* ---- the exposed ref of a DeferredScope ---------------------------------------
\* C37: the exposed ref of a DeferredScope is non-null exactly when the
\* DeferredScope owns a child scope that has not been stopped.
C37_ExposeIffLive ==
    smode = "deferred" =>
        (scopeSetupReturn.kind # "null" <=> (child # 0 /\ scopes[child].active))

\* ---- useStaleIfErrorState: fresh ----------------------------------------------
\* C38: whenever the state of useStaleIfErrorState is fresh, its result is
\* present, its error is null and it is not pending.
C38_FreshImplies ==
    (stale.on /\ stale.fresh) =>
        /\ stale.result # 0
        /\ stale.error = 0
        /\ ~stale.pending

C38_Witness ==
    /\ stale.on /\ stale.fresh
    /\ Len(runs) = 2
    /\ runs[1].wrote = "err"
    /\ stale.result = 2
    /\ queue = <<>>

====
